---- MODULE Spec2Model ----
(***************************************************************************)
(* The gear mathematics of the two add-ins of HelicalGearPlus:             *)
(*   src/HelicalGear.py      the older add-in (class HelicalGear with      *)
(*                           create_in_normal_system, ...)                 *)
(*   src/HelicalGearPlus.py  the newer add-in (class HelicalGear with      *)
(*                           createInNormalSystem, ..., isInvalid)         *)
(*                                                                         *)
(* Numbers.  Python floats are modelled on a fixed-point grid:             *)
(*   factors and trigonometric values in thousandths (SC),                 *)
(*   lengths in ten-thousandths of the unit (0.03 is 300),                 *)
(*   angles in tenths of a degree (Deg(90) is math.radians(90)).           *)
(* A raised Python exception is a value [tag |-> "raise", err |-> ...];    *)
(* a returned value is [tag |-> "ok", ...].                                *)
(***************************************************************************)
EXTENDS Integers, Sequences, FiniteSets, TLC

VARIABLES
  gear,      \* the gear object the running handler holds, NoGear when none
  call,      \* the last operation called and its arguments
  ret,       \* what that operation returned or raised
  shown,     \* how the last handler's failure came out: "none", "messageBox", "printed"
  lastGear,  \* the global lastGear of src/HelicalGearPlus.py: None or a body
  lastInput, \* the global lastInput of src/HelicalGearPlus.py: an input id
  inputs,    \* the values of the command inputs of the open dialog, NoInputs when none
  event_handlers,     \* __event_handlers of each FusionEventHandler object of src/Fission/fission.py
  command,            \* the handlers added to each event of the adsk.core.Command, in the order of event.add
  validate_callbacks  \* __validate_callbacks of the InputFactory, in insertion order

\* the state of src/Fission/fission.py
fission == <<event_handlers, command, validate_callbacks>>

vars == <<gear, call, ret, shown, lastGear, lastInput, inputs, event_handlers, command, validate_callbacks>>

---------------------------------------------------------------------------
(* Fixed-point arithmetic and the math library.                            *)

SC == 10 * 100

Deg(d) == d * 10

\* math.pi, in thousandths
Pi == 3142

Abs(x) == IF x < 0 THEN -x ELSE x

\* a * b and a / b of two floats on the grid
FMul(a, b) == (a * b) \div SC

FDiv(a, b) == (a * SC) \div b

\* math.sin over 0 .. 90 degrees, in thousandths, one entry per tenth of a degree
SinTab ==
  << 0, 2, 3, 5, 7, 9, 10, 12, 14, 16, 17, 19, 21, 23, 24,
     26, 28, 30, 31, 33, 35, 37, 38, 40, 42, 44, 45, 47, 49, 51,
     52, 54, 56, 58, 59, 61, 63, 65, 66, 68, 70, 71, 73, 75, 77,
     78, 80, 82, 84, 85, 87, 89, 91, 92, 94, 96, 98, 99, 101, 103,
     105, 106, 108, 110, 111, 113, 115, 117, 118, 120, 122, 124, 125, 127, 129,
     131, 132, 134, 136, 137, 139, 141, 143, 144, 146, 148, 150, 151, 153, 155,
     156, 158, 160, 162, 163, 165, 167, 168, 170, 172, 174, 175, 177, 179, 181,
     182, 184, 186, 187, 189, 191, 193, 194, 196, 198, 199, 201, 203, 204, 206,
     208, 210, 211, 213, 215, 216, 218, 220, 222, 223, 225, 227, 228, 230, 232,
     233, 235, 237, 239, 240, 242, 244, 245, 247, 249, 250, 252, 254, 255, 257,
     259, 261, 262, 264, 266, 267, 269, 271, 272, 274, 276, 277, 279, 281, 282,
     284, 286, 287, 289, 291, 292, 294, 296, 297, 299, 301, 302, 304, 306, 307,
     309, 311, 312, 314, 316, 317, 319, 321, 322, 324, 326, 327, 329, 331, 332,
     334, 335, 337, 339, 340, 342, 344, 345, 347, 349, 350, 352, 353, 355, 357,
     358, 360, 362, 363, 365, 367, 368, 370, 371, 373, 375, 376, 378, 379, 381,
     383, 384, 386, 388, 389, 391, 392, 394, 396, 397, 399, 400, 402, 404, 405,
     407, 408, 410, 412, 413, 415, 416, 418, 419, 421, 423, 424, 426, 427, 429,
     431, 432, 434, 435, 437, 438, 440, 442, 443, 445, 446, 448, 449, 451, 452,
     454, 456, 457, 459, 460, 462, 463, 465, 466, 468, 469, 471, 473, 474, 476,
     477, 479, 480, 482, 483, 485, 486, 488, 489, 491, 492, 494, 495, 497, 498,
     500, 502, 503, 505, 506, 508, 509, 511, 512, 514, 515, 517, 518, 520, 521,
     522, 524, 525, 527, 528, 530, 531, 533, 534, 536, 537, 539, 540, 542, 543,
     545, 546, 548, 549, 550, 552, 553, 555, 556, 558, 559, 561, 562, 564, 565,
     566, 568, 569, 571, 572, 574, 575, 576, 578, 579, 581, 582, 584, 585, 586,
     588, 589, 591, 592, 593, 595, 596, 598, 599, 600, 602, 603, 605, 606, 607,
     609, 610, 612, 613, 614, 616, 617, 618, 620, 621, 623, 624, 625, 627, 628,
     629, 631, 632, 633, 635, 636, 637, 639, 640, 641, 643, 644, 645, 647, 648,
     649, 651, 652, 653, 655, 656, 657, 659, 660, 661, 663, 664, 665, 667, 668,
     669, 670, 672, 673, 674, 676, 677, 678, 679, 681, 682, 683, 685, 686, 687,
     688, 690, 691, 692, 693, 695, 696, 697, 698, 700, 701, 702, 703, 705, 706,
     707, 708, 710, 711, 712, 713, 714, 716, 717, 718, 719, 721, 722, 723, 724,
     725, 727, 728, 729, 730, 731, 733, 734, 735, 736, 737, 738, 740, 741, 742,
     743, 744, 745, 747, 748, 749, 750, 751, 752, 754, 755, 756, 757, 758, 759,
     760, 762, 763, 764, 765, 766, 767, 768, 769, 771, 772, 773, 774, 775, 776,
     777, 778, 779, 780, 782, 783, 784, 785, 786, 787, 788, 789, 790, 791, 792,
     793, 794, 795, 797, 798, 799, 800, 801, 802, 803, 804, 805, 806, 807, 808,
     809, 810, 811, 812, 813, 814, 815, 816, 817, 818, 819, 820, 821, 822, 823,
     824, 825, 826, 827, 828, 829, 830, 831, 832, 833, 834, 835, 836, 837, 838,
     839, 840, 841, 842, 842, 843, 844, 845, 846, 847, 848, 849, 850, 851, 852,
     853, 854, 854, 855, 856, 857, 858, 859, 860, 861, 862, 863, 863, 864, 865,
     866, 867, 868, 869, 869, 870, 871, 872, 873, 874, 875, 875, 876, 877, 878,
     879, 880, 880, 881, 882, 883, 884, 885, 885, 886, 887, 888, 889, 889, 890,
     891, 892, 893, 893, 894, 895, 896, 896, 897, 898, 899, 900, 900, 901, 902,
     903, 903, 904, 905, 906, 906, 907, 908, 909, 909, 910, 911, 911, 912, 913,
     914, 914, 915, 916, 916, 917, 918, 918, 919, 920, 921, 921, 922, 923, 923,
     924, 925, 925, 926, 927, 927, 928, 928, 929, 930, 930, 931, 932, 932, 933,
     934, 934, 935, 935, 936, 937, 937, 938, 938, 939, 940, 940, 941, 941, 942,
     943, 943, 944, 944, 945, 946, 946, 947, 947, 948, 948, 949, 949, 950, 951,
     951, 952, 952, 953, 953, 954, 954, 955, 955, 956, 956, 957, 957, 958, 958,
     959, 959, 960, 960, 961, 961, 962, 962, 963, 963, 964, 964, 965, 965, 965,
     966, 966, 967, 967, 968, 968, 969, 969, 969, 970, 970, 971, 971, 972, 972,
     972, 973, 973, 974, 974, 974, 975, 975, 976, 976, 976, 977, 977, 977, 978,
     978, 979, 979, 979, 980, 980, 980, 981, 981, 981, 982, 982, 982, 983, 983,
     983, 984, 984, 984, 985, 985, 985, 985, 986, 986, 986, 987, 987, 987, 987,
     988, 988, 988, 988, 989, 989, 989, 990, 990, 990, 990, 991, 991, 991, 991,
     991, 992, 992, 992, 992, 993, 993, 993, 993, 993, 994, 994, 994, 994, 994,
     995, 995, 995, 995, 995, 995, 996, 996, 996, 996, 996, 996, 996, 997, 997,
     997, 997, 997, 997, 997, 998, 998, 998, 998, 998, 998, 998, 998, 998, 999,
     999, 999, 999, 999, 999, 999, 999, 999, 999, 999, 999, 999, 1000, 1000, 1000,
     1000, 1000, 1000, 1000, 1000, 1000, 1000, 1000, 1000, 1000, 1000, 1000, 1000, 1000, 1000,
     1000 >>

Sin(a) ==
  LET b == a % 3600
  IN  IF b <= 900 THEN SinTab[b + 1]
      ELSE IF b <= 1800 THEN SinTab[1800 - b + 1]
      ELSE IF b <= 2700 THEN -SinTab[b - 1800 + 1]
      ELSE -SinTab[3600 - b + 1]

Cos(a) == Sin(a + 900)

\* math.tan; only called where the cosine is not 0 on the grid
Tan(a) == (Sin(a) * SC) \div Cos(a)

\* the largest angle a in lo .. hi with tan(a) <= y / x, for x >= 0 and y > 0
RECURSIVE AtanSearch(_, _, _, _)
AtanSearch(y, x, lo, hi) ==
  IF lo = hi THEN lo
  ELSE LET mid == (lo + hi + 1) \div 2
       IN  IF Sin(mid) * x <= y * Cos(mid)
           THEN AtanSearch(y, x, mid, hi)
           ELSE AtanSearch(y, x, lo, mid - 1)

AtanPos(y, x) ==
  IF x >= 0 THEN AtanSearch(y, x, 0, 900) ELSE 1800 - AtanSearch(y, -x, 0, 900)

\* math.atan2(y, x), in tenths of a degree
Atan2(y, x) ==
  IF y = 0 THEN (IF x >= 0 THEN 0 ELSE 1800)
  ELSE IF y > 0 THEN AtanPos(y, x)
  ELSE -AtanPos(-y, x)

\* math.atan(v) of a value in thousandths
Atan(v) == Atan2(v, SC)

---------------------------------------------------------------------------
(* Results of calls.                                                       *)

Raise(e, l) == [tag |-> "raise", err |-> e, line |-> l]

IsRaise(r) == r.tag = "raise"

NoGear == [kind |-> "none"]

NoCall == [op |-> "none"]

\* no command dialog is open
NoInputs == [DDType |-> "none"]

\* no command has been created: no FusionEventHandler object exists
Unwired ==
  /\ event_handlers = <<>>
  /\ command = <<>>
  /\ validate_callbacks = <<>>

NoRet == [tag |-> "none"]

IsGear(g) == g.kind # "none"

Ok(v) == [tag |-> "ok", val |-> v]

\* Python's bool, as a string
Bool(b) == IF b THEN "True" ELSE "False"

\* math.pi in millionths: the two arc angles below are in millionths of a radian
PiMicro == 3141593

\* float('inf')
Inf == 2147483647

---------------------------------------------------------------------------
(* Extended precision.  The involute function and its inverse subtract     *)
(* nearly equal floats, so they are evaluated on a finer grid: a number is *)
(* four limbs <<i, f1, f2, f3>> of base XB, worth i + f1/XB + f2/XB^2 +    *)
(* f3/XB^3 with i any integer and 0 <= f < XB (floor representation,       *)
(* resolution 1e-12).                                                      *)

XB == 100 * 100

XZero == <<0, 0, 0, 0>>

XOne == <<1, 0, 0, 0>>

XInt(n) == <<n, 0, 0, 0>>

\* the element of a one-element set.  Python evaluates an argument once,
\* before the call; binding it as the element of a singleton does the same
Value(S) == CHOOSE r \in S : TRUE

\* carries the limbs of l into range
XNorm(l) ==
  Value({ LET s3 == m[3] + (m[4] \div XB)
              s2 == m[2] + ((m[3] + (m[4] \div XB)) \div XB)
          IN  <<m[1] + (s2 \div XB), s2 % XB, s3 % XB, m[4] % XB>> : m \in {l} })

XAdd(a, b) ==
  Value({ XNorm(<<u[1] + v[1], u[2] + v[2], u[3] + v[3], u[4] + v[4]>>) : u \in {a}, v \in {b} })

XSub(a, b) ==
  Value({ XNorm(<<u[1] - v[1], u[2] - v[2], u[3] - v[3], u[4] - v[4]>>) : u \in {a}, v \in {b} })

XNeg(a) == XSub(XZero, a)

XLess(a, b) ==
  \E u \in {a}, v \in {b} :
    \/ u[1] < v[1]
    \/ u[1] = v[1] /\ u[2] < v[2]
    \/ u[1] = v[1] /\ u[2] = v[2] /\ u[3] < v[3]
    \/ u[1] = v[1] /\ u[2] = v[2] /\ u[3] = v[3] /\ u[4] < v[4]

XAbs(a) == Value({ IF u[1] < 0 THEN XNeg(u) ELSE u : u \in {a} })

\* a * b, the product floored to the grid
XMul(a, b) ==
  Value({ LET p6 == u[4] * v[4]
              p5 == u[3] * v[4] + u[4] * v[3]
              p4 == u[2] * v[4] + u[3] * v[3] + u[4] * v[2]
              p3 == u[1] * v[4] + u[2] * v[3] + u[3] * v[2] + u[4] * v[1]
              p2 == u[1] * v[3] + u[2] * v[2] + u[3] * v[1]
              p1 == u[1] * v[2] + u[2] * v[1]
              c4 == (p4 + ((p5 + (p6 \div XB)) \div XB)) \div XB
          IN  XNorm(<<u[1] * v[1], p1, p2, p3 + c4>>) : u \in {a}, v \in {b} })

XMulInt(a, n) ==
  Value({ XNorm(<<u[1] * k, u[2] * k, u[3] * k, u[4] * k>>) : u \in {a}, k \in {n} })

\* a / n for an integer 0 < n < 200000
XDivInt(a, n) ==
  Value({ Value({ Value({ <<u[1] \div k, c2 \div k, c3 \div k, ((c3 % k) * XB + u[4]) \div k>>
                          : c3 \in {(c2 % k) * XB + u[3]} })
                  : c2 \in {(u[1] % k) * XB + u[2]} })
          : u \in {a}, k \in {n} })

\* y * (2 - b * y): one step of Newton's iteration for 1 / b
XRecipStep(b, y) == Value({ XMul(v, XSub(XInt(2), XMul(b, v))) : v \in {y} })

\* 1 / b for b >= 0.0001: four Newton steps from the quotient of b's
\* leading digits
XRecip(b) ==
  Value({ LET d   == IF v[1] >= 1 THEN v[1] * 10 + (v[2] \div 1000) ELSE v[2] * 10 + (v[3] \div 1000)
              num == IF v[1] >= 1 THEN 10 ELSE 100000
              y1  == XRecipStep(v, <<num \div d, ((num % d) * XB) \div d, 0, 0>>)
              y2  == XRecipStep(v, y1)
              y3  == XRecipStep(v, y2)
          IN  XRecipStep(v, y3) : v \in {b} })

\* a / b for b # 0
XDiv(a, b) ==
  Value({ IF v[1] < 0 THEN XNeg(XMul(a, XRecip(XNeg(v)))) ELSE XMul(a, XRecip(v)) : v \in {b} })

\* math.pi
XPi == <<3, 1415, 9265, 3589>>

\* math.radians of an angle given in tenths of a degree
XRadians(a) == XDivInt(XMulInt(XPi, a), 1800)

\* s[1] - s[2] + s[3] - ... of eight numbers
XAlternate(s) ==
  Value({ LET col(i) == t[1][i] - t[2][i] + t[3][i] - t[4][i] + t[5][i] - t[6][i] + t[7][i] - t[8][i]
          IN  XNorm(<<col(1), col(2), col(3), col(4)>>) : t \in {s} })

\* s with its next n terms appended, each the last one * x2 / (k (k + 1)),
\* k growing by 2 per term
RECURSIVE XTermsFrom(_, _, _, _)
XTermsFrom(s, x2, k, n) ==
  IF n = 0 THEN s
  ELSE Value({ XTermsFrom(Append(t, XDivInt(XMul(t[Len(t)], x2), k * (k + 1))), x2, k + 2, n - 1)
               : t \in {s} })

\* first, first * x2 / (k (k + 1)), that * x2 / ((k + 2)(k + 3)), ...:
\* the eight terms of the power series of sine (first = x, k = 2) and of
\* cosine (first = 1, k = 1), with x2 = x * x
XTerms(first, x2, k) == Value({ XTermsFrom(<<first>>, v, k, 7) : v \in {x2} })

\* sine and cosine of 0 <= x <= pi / 4
XSinSmall(x) == Value({ XAlternate(XTerms(v, XMul(v, v), 2)) : v \in {x} })

XCosSmall(x) == Value({ XAlternate(XTerms(XOne, XMul(v, v), 1)) : v \in {x} })

\* x - floor(x / pi) * pi, in 0 .. pi
XModPi(x) == Value({ XSub(v, XMulInt(XPi, XMul(v, XRecip(XPi))[1])) : v \in {x} })

\* tan(z) for 0 <= z <= pi / 2, as 1 / tan(pi / 2 - z) above pi / 4
XTanQuadrant(z) ==
  Value({ IF XLess(XDivInt(XPi, 4), v)
          THEN Value({ XDiv(XCosSmall(w), XSinSmall(w)) : w \in {XSub(XDivInt(XPi, 2), v)} })
          ELSE XDiv(XSinSmall(v), XCosSmall(v)) : v \in {z} })

\* math.tan(x) = tan(x - k pi), and -tan(pi - x) in the second quadrant
XTanReduced(y) ==
  Value({ IF XLess(XDivInt(XPi, 2), v) THEN XNeg(XTanQuadrant(XSub(XPi, v))) ELSE XTanQuadrant(v)
          : v \in {y} })

XTan(x) == XTanReduced(XModPi(x))

\* cos(z) for 0 <= z <= pi / 2, as sin(pi / 2 - z) above pi / 4
XCosQuadrant(z) ==
  Value({ IF XLess(XDivInt(XPi, 4), v) THEN XSinSmall(XSub(XDivInt(XPi, 2), v)) ELSE XCosSmall(v)
          : v \in {z} })

\* cos(y) for 0 <= y <= pi, as -cos(pi - y) in the second quadrant
XCosReduced(y) ==
  Value({ IF XLess(XDivInt(XPi, 2), v) THEN XNeg(XCosQuadrant(XSub(XPi, v))) ELSE XCosQuadrant(v)
          : v \in {y} })

\* math.cos(x) = (-1)^k cos(x - k pi)
XCos(x) ==
  Value({ IF XMul(v, XRecip(XPi))[1] % 2 = 0 THEN XCosReduced(XModPi(v)) ELSE XNeg(XCosReduced(XModPi(v)))
          : v \in {x} })

\* math.sin(x) for 0 <= x <= pi, as cos(|pi / 2 - x|)
XSin(x) == XCosQuadrant(XAbs(XSub(XDivInt(XPi, 2), x)))

\* t + (cos(t) - c) / sin(t): one step of Newton's iteration for acos(c)
XAcosStep(c, t) == Value({ XAdd(v, XDiv(XSub(XCosReduced(v), c), XSin(v))) : v \in {t} })

\* math.acos(c) for -0.999 <= c <= 0.999 and for c = 1, c = -1: three Newton
\* steps from the angle, to a tenth of a degree, whose cosine is c cut to
\* thousandths
XAcos(c) ==
  Value({ LET t0 == XRadians(CHOOSE a \in 1 .. 1799 : a = 1799 \/ Cos(a + 1) < v[1] * SC + (v[2] \div 10))
          IN  IF v = XOne THEN XZero
              ELSE IF v = XInt(0 - 1) THEN XPi
              ELSE XAcosStep(v, XAcosStep(v, XAcosStep(v, t0))) : v \in {c} })

\* (2 y + v / y^2) / 3: one step of Newton's iteration for the cube root of v
XCbrtStep(v, y) == Value({ XDivInt(XAdd(XMulInt(w, 2), XDiv(v, XMul(w, w))), 3) : w \in {y} })

\* pow(v, 1/3) for 0 <= v < 2000: five Newton steps from the integer cube
\* root of v's leading digits
XCbrt(v) ==
  Value({ LET lead == w[1] * 1000000 + w[2] * 100 + (w[3] \div 100)
              c    == CHOOSE k \in 1 .. 1260 : k = 1260 \/ lead < (k + 1) * (k + 1) * (k + 1)
              y0   == Value({ <<n \div 100, (n % 100) * 100, 0, 0>> : n \in {c} })
          IN  IF w = XZero THEN XZero
              ELSE XCbrtStep(w, XCbrtStep(w, XCbrtStep(w, XCbrtStep(w, XCbrtStep(w, y0))))) : w \in {v} })

---------------------------------------------------------------------------
(* src/HelicalGear.py: class HelicalGear.                                  *)

\* the value that replaces a module <= 0 (1e-10): the smallest positive
\* length of the grid, so that its sign is the one the code computes with
Epsilon == 1

\* 0.03, the floor of the root diameter
RootFloor == 300

\* tooth_count / cos(helix)^3, in thousandths
virtual_teeth(tooth_count, cos_helix_angle) ==
  FDiv(FDiv(FDiv(tooth_count * SC, cos_helix_angle), cos_helix_angle), cos_helix_angle)

create_in_normal_system(tooth_count, normal_module, normal_pressure_angle, helix_angle, handedness, backlash) ==
  LET tc  == IF tooth_count > 0 THEN tooth_count ELSE 1
      nm  == IF normal_module > 0 THEN normal_module ELSE Epsilon
      npa == IF 0 <= normal_pressure_angle /\ normal_pressure_angle < Deg(90)
             THEN normal_pressure_angle ELSE 0
      ha  == IF 0 <= helix_angle /\ helix_angle < Deg(90) THEN helix_angle ELSE 0
      cos_helix_angle == Cos(ha)
      module          == FDiv(nm, cos_helix_angle)
      pressure_angle  == Atan2(Tan(npa), cos_helix_angle)
      pitch_diameter  == module * tc
      addendum        == nm
      whole_depth     == FMul(2250, nm)
      outside_diameter == pitch_diameter + 2 * addendum
  IN  [kind |-> "HelicalGear",
       backlash |-> backlash,
       helix_angle |-> ha,
       handedness |-> handedness,
       tooth_count |-> tc,
       normal_module |-> nm,
       normal_pressure_angle |-> npa,
       normal_circular_pitch |-> FMul(nm, Pi),
       virtual_teeth |-> virtual_teeth(tc, cos_helix_angle),
       module |-> module,
       pressure_angle |-> pressure_angle,
       pitch_diameter |-> pitch_diameter,
       base_diameter |-> FMul(pitch_diameter, Cos(pressure_angle)),
       addendum |-> addendum,
       whole_depth |-> whole_depth,
       outside_diameter |-> outside_diameter,
       root_diameter |-> outside_diameter - 2 * whole_depth,
       circular_pitch |-> FMul(module, Pi)]

\* the part the radial-system factory and the Sunderland factory share: the
\* gear from the (already replaced) inputs and the two tooth-depth factors,
\* which are given in ten-thousandths (1 and 2.25, or 0.8796 and 1.8849)
RadialGear(tc, radial_module, radial_pressure_angle, ha, handedness, backlash, addendum_factor, whole_depth_factor) ==
  LET cos_helix_angle == Cos(ha)
      pitch_diameter  == radial_module * tc
      addendum        == (addendum_factor * radial_module) \div 10000
      whole_depth     == (whole_depth_factor * radial_module) \div 10000
      outside_diameter == pitch_diameter + 2 * addendum
  IN  [kind |-> "HelicalGear",
       backlash |-> backlash,
       helix_angle |-> ha,
       handedness |-> handedness,
       tooth_count |-> tc,
       normal_module |-> FMul(radial_module, cos_helix_angle),
       normal_pressure_angle |-> Atan(FMul(Tan(radial_pressure_angle), cos_helix_angle)),
       normal_circular_pitch |-> FMul(FMul(radial_module, cos_helix_angle), Pi),
       virtual_teeth |-> virtual_teeth(tc, cos_helix_angle),
       module |-> radial_module,
       pressure_angle |-> radial_pressure_angle,
       pitch_diameter |-> pitch_diameter,
       base_diameter |-> FMul(pitch_diameter, Cos(radial_pressure_angle)),
       addendum |-> addendum,
       whole_depth |-> whole_depth,
       outside_diameter |-> outside_diameter,
       root_diameter |-> outside_diameter - 2 * whole_depth,
       circular_pitch |-> FMul(radial_module, Pi)]

create_in_radial_system(tooth_count, radial_module, radial_pressure_angle, helix_angle, handedness, backlash) ==
  LET tc  == IF tooth_count > 0 THEN tooth_count ELSE 1
      rm  == IF radial_module > 0 THEN radial_module ELSE Epsilon
      rpa == IF 0 <= radial_pressure_angle /\ radial_pressure_angle < Deg(90)
             THEN radial_pressure_angle ELSE 0
      ha  == IF 0 <= helix_angle /\ helix_angle < Deg(90) THEN helix_angle ELSE 0
  IN  RadialGear(tc, rm, rpa, ha, handedness, backlash, 10000, 22500)

\* a Sunderland factory that takes the tooth depths from the normal module
create_sunderland_normal(tooth_count, radial_module, handedness, backlash) ==
  LET tc == IF tooth_count > 0 THEN tooth_count ELSE 1
      rm == IF radial_module > 0 THEN radial_module ELSE Epsilon
      g  == RadialGear(tc, rm, Deg(20), 225, handedness, backlash, 8796, 18849)
      addendum    == (8796 * g.normal_module) \div 10000
      whole_depth == (18849 * g.normal_module) \div 10000
  IN  [g EXCEPT !.addendum = addendum,
                !.whole_depth = whole_depth,
                !.outside_diameter = g.pitch_diameter + 2 * addendum,
                !.root_diameter = g.pitch_diameter + 2 * addendum - 2 * whole_depth]

create_sunderland(tooth_count, radial_module, handedness, backlash) ==
  LET tc == IF tooth_count > 0 THEN tooth_count ELSE 1
      rm == IF radial_module > 0 THEN radial_module ELSE Epsilon
  IN  RadialGear(tc, rm, Deg(20), 225, handedness, backlash, 8796, 18849)

\* 2 * backlash / pitch_diameter, in millionths of a radian
backlash_angle(g) ==
  IF g.pitch_diameter > 0 THEN (2 * g.backlash * SC * SC) \div g.pitch_diameter ELSE 0

\* 2 * pi / tooth_count, in millionths of a radian
tooth_arc_angle(g) ==
  IF g.tooth_count > 0 THEN (2 * PiMicro) \div g.tooth_count ELSE 0

\* 2 / sin(normal_pressure_angle)^2, in thousandths
critcal_virtual_tooth_count(g) ==
  LET s == Sin(g.normal_pressure_angle)
  IN  IF s * s # 0 THEN (2 * SC * SC * SC) \div (s * s) ELSE Inf

is_undercut_requried(g) == g.virtual_teeth < critcal_virtual_tooth_count(g)

\* abs(backlash_angle) / 4 < tooth_arc_angle / 8: the two divisions are exact
\* in binary floating point, so the test is 2 * |backlash_angle| < tooth_arc_angle
is_valid(g) ==
  /\ g.circular_pitch > 0
  /\ g.base_diameter > 0
  /\ g.pitch_diameter > 0
  /\ g.root_diameter > RootFloor
  /\ g.outside_diameter > 0
  /\ g.whole_depth > 0
  /\ g.addendum > 0
  /\ g.pressure_angle >= 0
  /\ g.pressure_angle < Deg(90)
  /\ g.module > 0
  /\ g.tooth_count > 0
  /\ g.helix_angle >= 0
  /\ g.helix_angle < Deg(90)
  /\ 2 * Abs(backlash_angle(g)) < tooth_arc_angle(g)

\* class HelixCurve: valid unless the angle is within 0.0001 degrees of 0
\* (0 on the grid); c is math.tan(helix_angle) * radius.  At 90 degrees the
\* float tangent is about 1.6e16, Inf here.
HelixCurve(radius, helix_angle) ==
  [radius |-> radius, helix_angle |-> helix_angle, is_valid |-> helix_angle # 0,
   c |-> IF helix_angle = 0 \/ Cos(helix_angle) = 0 THEN Inf ELSE FMul(Tan(helix_angle), radius)]

\* property pitch_helix: the curve of radius pitch_diameter / 2 at the angle
\* 90 degrees - helix_angle of a right-handed gear, 90 degrees + helix_angle
\* of any other
pitch_helix(g) ==
  HelixCurve(g.pitch_diameter \div 2,
             IF g.handedness = "right" THEN Deg(90) - g.helix_angle ELSE Deg(90) + g.helix_angle)

\* property vertical_loop_seperation of a valid curve: c * 2 * math.pi
vertical_loop_seperation(h) == IF h.c = Inf THEN Inf ELSE FMul(h.c, 2 * Pi)

\* gear_thickness / gear.pitch_helix.vertical_loop_seperation, in
\* thousandths, for a separation other than 0
loops(g, gear_thickness) ==
  Value({ IF sep = Inf THEN 0 ELSE FDiv(gear_thickness, sep) : sep \in {vertical_loop_seperation(pitch_helix(g))} })

\* generate_gear(generate_all_teeth, is_preview) of the add-in, gear being
\* what make_gear returned, up to the creation of the component:
\*   ret      False when it returned early, the exception when it raised
\*   created  the component was created; sketch, teeth and sweep follow
generate_gear(g, gear_thickness, generate_all_teeth, is_preview) ==
  IF ~is_valid(g) THEN [ret |-> Ok("False"), created |-> FALSE]
  ELSE IF ~generate_all_teeth THEN [ret |-> Ok("False"), created |-> FALSE]
  ELSE IF ~pitch_helix(g).is_valid THEN [ret |-> Raise("TypeError", 926), created |-> FALSE]
  ELSE IF vertical_loop_seperation(pitch_helix(g)) = 0 THEN [ret |-> Raise("ZeroDivisionError", 926), created |-> FALSE]
  ELSE IF loops(g, gear_thickness) > 25 * SC /\ is_preview THEN [ret |-> Ok("False"), created |-> FALSE]
  ELSE IF g.tooth_count > 150 /\ is_preview THEN [ret |-> Ok("False"), created |-> FALSE]
  ELSE [ret |-> NoRet, created |-> TRUE]

---------------------------------------------------------------------------
(* src/HelicalGearPlus.py: classes GearModifier, GearMount, HelicalGear.   *)

\* GearModifier(profileshift, otherToothCount, otherProfileShift, centerCenterDistanct)
GearModifier(profileshift, otherToothCount, otherProfileShift, centerCenterDistanct) ==
  [cls |-> "instance",
   profileShift |-> profileshift,
   otherToothCount |-> otherToothCount,
   otherProfileShift |-> otherProfileShift,
   centerCenterDistance |-> centerCenterDistanct]

\* the class object GearModifier itself, which the factories store when no
\* modifier is passed: it has none of the instance attributes
GearModifierClass == [cls |-> "class"]

GearMount(boreDiameter, keyHeight, keyWidth) ==
  [cls |-> "instance", bore |-> boreDiameter, keyHeight |-> keyHeight, keyWidth |-> keyWidth]

GearMountClass == [cls |-> "class"]

\* the argument value None
None == [cls |-> "None"]

\* property pitchDiameter: "return module * toothcount" reads two names that
\* are neither local nor global, so every read of the property raises
pitchDiameter(g) == Raise("NameError", 355)

\* property baseDiameter: "return pitchDiameter * math.cos(gear.pressureAngle)",
\* again names that are not defined
baseDiameter(g) == Raise("NameError", 360)

\* property backlashAngle: the condition "self.pitchDiameter > 0" is evaluated
\* first; the value is in millionths of a radian
backlashAngle(g) ==
  LET pd == pitchDiameter(g)
  IN  IF IsRaise(pd) THEN pd
      ELSE IF pd.val > 0 THEN Ok((2 * g.backlash * SC * SC) \div pd.val)
      ELSE Ok(0)

\* property toothArcAngle, in millionths of a radian
toothArcAngle(g) ==
  IF g.toothCount > 0 THEN (2 * PiMicro) \div g.toothCount ELSE 0

\* toothCount / cos(helixAngle)^3 in thousandths.  The helix angle is not
\* replaced in the normal system, and math.cos(math.radians(90)) is 6.1e-17,
\* not 0: the quotient is then finite and beyond the grid
virtualTeeth(toothCount, cosHelixAngle) ==
  IF cosHelixAngle = 0 THEN Inf - 1
  ELSE FDiv(FDiv(FDiv(toothCount * SC, cosHelixAngle), cosHelixAngle), cosHelixAngle)

\* property critcalVirtualToothCount, in thousandths: q is tested before the
\* modifier is read
critcalVirtualToothCount(g) ==
  LET s == Sin(g.normalPressureAngle)
  IN  IF s * s # 0
      THEN IF g.modifier.cls # "instance" THEN Raise("AttributeError", 389)
           ELSE Ok((2 * (SC - g.modifier.profileShift) * SC * SC) \div (s * s))
      ELSE Ok(Inf)

\* an undercut test that also flags a gear exactly at the critical count
isUndercutRequried_le(g) ==
  LET c == critcalVirtualToothCount(g)
  IN  IF IsRaise(c) THEN c ELSE Ok(Bool(g.virtualTeeth <= c.val))

\* property isUndercutRequried
isUndercutRequried(g) ==
  LET c == critcalVirtualToothCount(g)
  IN  IF IsRaise(c) THEN c ELSE Ok(Bool(g.virtualTeeth < c.val))

\* property isInvalid: the reason of the first failing check, or False
isInvalid(g) ==
  IF g.width <= 0 THEN Ok("Width too low")
  ELSE IF Deg(-90) > g.helixAngle THEN Ok("Helix angle too low")
  ELSE IF Deg(90) < g.helixAngle THEN Ok("Helix angle too high")
  ELSE IF g.module <= 0 THEN Ok("Module to low")
  ELSE IF g.addendum <= 0 THEN Ok("Addendum too low")
  ELSE IF g.wholeDepth <= 0 THEN Ok("Dedendum too low")
  ELSE IF g.pressureAngle < 0 THEN Ok("Pressure angle too low")
  ELSE IF g.pressureAngle > Deg(80) THEN Ok("Pressure angle too high")
  ELSE IF g.normalPressureAngle < 0 THEN Ok("Pressure angle too low")
  ELSE IF g.normalPressureAngle > Deg(80) THEN Ok("Pressure angle too high")
  ELSE IF g.toothCount <= 0 THEN Ok("Too few teeth")
  ELSE IF IsRaise(backlashAngle(g)) THEN backlashAngle(g)
  ELSE IF 2 * Abs(backlashAngle(g).val) >= toothArcAngle(g) THEN Ok("Backlash too high")
  ELSE IF g.internalOutsideDiameter # 0 /\ g.internalOutsideDiameter <= g.outsideDiameter
       THEN Ok("Outside diameter too low")
  ELSE IF g.circularPitch <= 0 THEN Ok("Invalid: circularPitch")
  ELSE IF IsRaise(baseDiameter(g)) THEN baseDiameter(g)
  ELSE IF baseDiameter(g).val <= 0 THEN Ok("Invalid Gear")
  ELSE IF IsRaise(pitchDiameter(g)) THEN pitchDiameter(g)
  ELSE IF pitchDiameter(g).val <= 0 THEN Ok("Invalid Gear")
  ELSE IF g.rootDiameter <= RootFloor THEN Ok("Invalid Gear")
  ELSE IF g.outsideDiameter <= 0 THEN Ok("Invalid Gear")
  ELSE Ok("False")

\* The gear object a factory has assigned so far when it reaches the tooth
\* depths: the fields both factories set before that point.  None and 0 are
\* both false in the only test made of internalOutsideDiameter; it is kept
\* as a number, 0 for None.
GearSoFar(toothCount, helixAngle, backlash, width, herringbone, internalOutsideDiameter, gearmodifier, gearmount, normalModule, normalPressureAngle, module, pressureAngle) ==
  [kind |-> "HelicalGearPlus",
   backlash |-> backlash,
   helixAngle |-> helixAngle,
   toothCount |-> toothCount,
   width |-> width,
   herringbone |-> herringbone,
   internalOutsideDiameter |-> internalOutsideDiameter,
   modifier |-> IF gearmodifier # None THEN gearmodifier ELSE GearModifierClass,
   mount |-> IF gearmount # None THEN gearmount ELSE GearMountClass,
   normalModule |-> normalModule,
   normalPressureAngle |-> normalPressureAngle,
   normalCircularPitch |-> FMul(normalModule, Pi),
   virtualTeeth |-> virtualTeeth(toothCount, Cos(helixAngle)),
   module |-> module,
   pressureAngle |-> pressureAngle]

\* createInNormalSystem.  Only the tooth count is replaced (the three other
\* replacements are commented out).  Line 513 is the incomplete statement
\* "gear.", which Python rejects: no call gets past it.  The statements after
\* it read gear.modifier.otherProfileShift (line 526) and gear.pitchDiameter
\* (line 534).
createInNormalSystem(toothCount, normalModule, normalPressureAngle, helixAngle, backlash, addendum, dedendum, width, herringbone, internalOutsideDiameter, gearmodifier, gearmount) ==
  LET tc == IF toothCount > 0 THEN toothCount ELSE 1
      modifier == IF gearmodifier # None THEN gearmodifier ELSE GearModifierClass
      statement513 == Raise("SyntaxError", 513)
  IN  IF IsRaise(statement513) THEN statement513
      ELSE IF modifier.cls # "instance" THEN Raise("AttributeError", 526)
      ELSE pitchDiameter(GearSoFar(tc, helixAngle, backlash, width, herringbone,
                                   internalOutsideDiameter, gearmodifier, gearmount,
                                   normalModule, normalPressureAngle,
                                   FDiv(normalModule, Cos(helixAngle)),
                                   Atan2(Tan(normalPressureAngle), Cos(helixAngle))))

\* createInRadialSystem.  All four inputs are replaced when out of range.
\* Line 602 reads the name profileshift, which is not defined; line 604 reads
\* gear.pitchDiameter.
createInRadialSystem(toothCount, radialModule, radialPressureAngle, helixAngle, backlash, addendum, dedendum, width, herringbone, internalOutsideDiameter, gearmodifier, gearmount) ==
  LET tc  == IF toothCount > 0 THEN toothCount ELSE 1
      rm  == IF radialModule > 0 THEN radialModule ELSE Epsilon
      rpa == IF 0 <= radialPressureAngle /\ radialPressureAngle < Deg(90)
             THEN radialPressureAngle ELSE 0
      ha  == IF Deg(-90) < helixAngle /\ helixAngle < Deg(90) THEN helixAngle ELSE 0
      profileshift == Raise("NameError", 602)
  IN  IF IsRaise(profileshift) THEN profileshift
      ELSE pitchDiameter(GearSoFar(tc, ha, backlash, width, herringbone,
                                   internalOutsideDiameter, gearmodifier, gearmount,
                                   FMul(rm, Cos(ha)), Atan(FMul(Tan(rpa), Cos(ha))),
                                   rm, rpa))

---------------------------------------------------------------------------
(* class Involute: the involute sampler, the same statements in both files *)
(* (src/HelicalGear.py lines 39-183, src/HelicalGearPlus.py lines 97-249). *)
(* A point is kept in polar form, [r, a]: its distance from the origin and *)
(* its angle atan2(y, x) in tenths of a degree; rotating a point adds to a *)
(* and mirroring it about the x axis negates a.  The line numbers of the   *)
(* raised errors are those of src/HelicalGear.py.                          *)

\* the largest s in lo .. hi with s * s <= v
RECURSIVE SqrtSearch(_, _, _)
SqrtSearch(v, lo, hi) ==
  IF lo = hi THEN lo
  ELSE LET mid == (lo + hi + 1) \div 2
       IN  IF mid * mid <= v THEN SqrtSearch(v, mid, hi) ELSE SqrtSearch(v, lo, mid - 1)

\* math.sqrt of a value >= 0
Sqrt(v) == SqrtSearch(v, 0, 46340)

\* the smallest angle a in lo .. hi with cos(a) <= c
RECURSIVE AcosSearch(_, _, _)
AcosSearch(c, lo, hi) ==
  IF lo = hi THEN lo
  ELSE LET mid == (lo + hi) \div 2
       IN  IF Cos(mid) <= c THEN AcosSearch(c, lo, mid) ELSE AcosSearch(c, mid + 1, hi)

\* math.acos of a value in thousandths, -1000 .. 1000
Acos(c) == AcosSearch(c, 0, 1800)

\* an angle brought into (-180, 180] degrees, the range of math.atan2
Norm(a) ==
  LET b == a % 3600 IN IF b > 1800 THEN b - 3600 ELSE b

\* millionths of a radian to tenths of a degree
MicroToDeci(u) == (u * 10) \div 17453

Point(r, a) == [tag |-> "ok", r |-> r, a |-> a]

\* _involute_point / InvolutePoint
involute_point(baseCircleRadius, distFromCenterToInvolutePoint) ==
  LET sq == distFromCenterToInvolutePoint * distFromCenterToInvolutePoint
            - baseCircleRadius * baseCircleRadius
  IN  IF sq < 0 THEN Raise("ValueError", 177)
      ELSE IF baseCircleRadius = 0 THEN Raise("ZeroDivisionError", 179)
      ELSE IF distFromCenterToInvolutePoint = 0 THEN Raise("ZeroDivisionError", 180)
      ELSE Point(distFromCenterToInvolutePoint,
                 (Sqrt(sq) * 573) \div baseCircleRadius
                 - Acos(FDiv(baseCircleRadius, distFromCenterToInvolutePoint)))

\* the radius at which the flanks start
involute_from_rad(base_diameter, root_diameter) ==
  IF base_diameter >= root_diameter THEN base_diameter \div 2 ELSE root_diameter \div 2

\* the radius of sample i (from 0): involutePointCount - 1 equal steps are
\* added one after the other, starting at involute_from_rad
sample_radius(from, outside_radius, involutePointCount, i) ==
  from + (i * (outside_radius - from)) \div (involutePointCount - 1)

\* The closure of the tooth tip, drawn when the flanks do not cross.
tip_closure(tooth_count, involutePoints, involute2Points) ==
  LET n    == Len(involutePoints)
      tip1 == Norm(involutePoints[n].a)
      raw2 == Norm(involute2Points[n].a)
      tip2 == IF raw2 < tip1 THEN raw2 + 3600 ELSE raw2
  IN  IF tooth_count >= 100
      THEN [kind |-> "chord", radius |-> 0, start |-> 0, sweep |-> 0]
      ELSE [kind |-> "arc", radius |-> Abs(involutePoints[n].r),
            start |-> tip1, sweep |-> tip2 - tip1]

\* Involute.draw for one tooth.  crossCount and rootArcHits are the answers
\* of the modeler: the number of points in which the two flank splines
\* intersect, and whether the root arc intersects the first flank.
\* halfShiftAngle is 0 in src/HelicalGear.py.
draw(base_diameter, root_diameter, outside_diameter, pitch_diameter, tooth_count, toothArc, backlashAng, halfShiftAngle, rotation, involutePointCount, crossCount, rootArcHits) ==
  LET rb   == base_diameter \div 2
      from == involute_from_rad(base_diameter, root_diameter)
      n    == IF involutePointCount > 0 THEN involutePointCount ELSE 0
      raw  == [i \in 1 .. n |->
                 involute_point(rb, sample_radius(from, outside_diameter \div 2,
                                                  involutePointCount, i - 1))]
      bad  == {i \in 1 .. n : IsRaise(raw[i])}
      pitchInvolutePoint == involute_point(rb, pitch_diameter \div 2)
      rotateAngle == -(MicroToDeci(toothArc \div 4) + Norm(pitchInvolutePoint.a)
                       - MicroToDeci(backlashAng \div 4) + MicroToDeci(halfShiftAngle \div 2))
      involutePoints  == [i \in 1 .. n |->
                            Point(raw[i].r, Norm(raw[i].a + rotateAngle + rotation))]
      involute2Points == [i \in 1 .. n |->
                            Point(raw[i].r, Norm(-(raw[i].a + rotateAngle) + rotation))]
      curve1Angle == involutePoints[1].a
      curve2Angle == IF involute2Points[1].a < curve1Angle
                     THEN involute2Points[1].a + 3600 ELSE involute2Points[1].a
      mid_index == involutePointCount \div 2
      tip == IF crossCount = 1
             THEN [kind |-> "none", radius |-> 0, start |-> 0, sweep |-> 0]
             ELSE tip_closure(tooth_count, involutePoints, involute2Points)
  IN  IF involutePointCount = 1 THEN Raise("ZeroDivisionError", 49)
      ELSE IF bad # {} THEN raw[CHOOSE i \in bad : \A j \in bad : i <= j]
      ELSE IF IsRaise(pitchInvolutePoint) THEN pitchInvolutePoint
      ELSE IF n = 0 THEN Raise("IndexError", 92)
      ELSE IF crossCount > 1 THEN Raise("AssertionError", 115)
      ELSE [tag |-> "ok",
            flank1 |-> involutePoints,
            flank2 |-> involute2Points,
            \* the statements that would trim the two splines at the crossing
            \* point are commented out: the splines keep all their points
            flanksEndAtCrossing |-> FALSE,
            keyPoints |-> 4 + (IF crossCount = 1 THEN 1
                               ELSE IF tooth_count >= 100 THEN 2 ELSE 3),
            midPoint |-> involutePoints[mid_index + 1],
            tip |-> tip,
            rootArc |-> [radius |-> root_diameter \div 2 - 100,
                         start |-> curve1Angle, sweep |-> curve2Angle - curve1Angle],
            rootTrimmed |-> rootArcHits,
            connectors |-> IF rootArcHits THEN 0 ELSE 2]

\* a draw in which the rotation of the tooth also shifts the two flanks
\* against each other
Involute_draw_drift(g, rotation, involutePointCount, crossCount, rootArcHits) ==
  draw(g.base_diameter, g.root_diameter, g.outside_diameter, g.pitch_diameter,
       g.tooth_count, tooth_arc_angle(g), backlash_angle(g), rotation * 1745,
       rotation, involutePointCount, crossCount, rootArcHits)

\* Involute(gear).draw(sketch, 0, rotation) in src/HelicalGear.py
Involute_draw(g, rotation, involutePointCount, crossCount, rootArcHits) ==
  draw(g.base_diameter, g.root_diameter, g.outside_diameter, g.pitch_diameter,
       g.tooth_count, tooth_arc_angle(g), backlash_angle(g), 0,
       rotation, involutePointCount, crossCount, rootArcHits)

\* Involute(gear).draw(sketch, 0, rotation) in src/HelicalGearPlus.py: its
\* first statement reads gear.baseDiameter
InvoluteDraw(g, rotation, involutePointCount, crossCount, rootArcHits) ==
  IF IsRaise(baseDiameter(g)) THEN baseDiameter(g)
  ELSE IF IsRaise(pitchDiameter(g)) THEN pitchDiameter(g)
  ELSE IF g.modifier.cls # "instance" THEN Raise("AttributeError", 123)
  ELSE draw(baseDiameter(g).val, g.rootDiameter, g.outsideDiameter, pitchDiameter(g).val,
            g.toothCount, toothArcAngle(g), backlashAngle(g).val,
            g.modifier.profileShift * Tan(g.pressureAngle),
            rotation, involutePointCount, crossCount, rootArcHits)

\* the rotation of tooth i of the gear: (i / toothCount) * 2 * pi
tooth_rotation(i, tooth_count) == (i * 3600) \div tooth_count

---------------------------------------------------------------------------
(* Bounds and the inputs the operations are called with.                   *)

\* the largest involutePointCount tried (the add-ins pass none: 10)
MaxPoints == 3

\* the largest number of crossing points the modeler answers
MaxCross == 2

\* the teeth drawn are 0 .. MaxTooth of each gear
MaxTooth == 1

ToothCounts == {0, 16, 18, 100, 160}

\* self.gear_thickness.eval(): 1 cm and 100 cm
Thicknesses == {10000, 1000000}

Modules == {0, 300}

PressureAngles == {0, Deg(20), Deg(90)}

HelixAngles == {Deg(-30), 0, Deg(30), Deg(90)}

Handednesses == {"left", "right"}

Backlashes == {0, 400}

Modifiers ==
  {GearModifier(0, 0, 0, 0), GearModifier(0, 24, 0, 0), GearModifier(500, 24, 250, 0)}

Mounts == {GearMount(600, 300, 300)}

---------------------------------------------------------------------------
(* The add-ins as a state machine: a handler builds one gear with a        *)
(* factory, evaluates its properties and draws its teeth, and returns.     *)

Init ==
  /\ gear = NoGear
  /\ call = NoCall
  /\ ret = NoRet
  /\ shown = "none"
  /\ lastGear = None
  /\ lastInput = ""
  /\ inputs = NoInputs
  /\ Unwired

Idle == call.op = "none"

Call_create_in_normal_system ==
  /\ Idle
  /\ \E tc \in ToothCounts, m \in Modules, pa \in PressureAngles, ha \in HelixAngles,
        hd \in Handednesses, b \in Backlashes :
       /\ gear' = create_in_normal_system(tc, m, pa, ha, hd, b)
       /\ call' = [op |-> "create_in_normal_system", tooth_count |-> tc, module |-> m,
                   pressure_angle |-> pa, helix_angle |-> ha, handedness |-> hd,
                   backlash |-> b]
       /\ ret' = Ok(gear')
  /\ shown' = "none"
  /\ UNCHANGED <<lastGear, lastInput, inputs, fission>>

Call_create_in_radial_system ==
  /\ Idle
  /\ \E tc \in ToothCounts, m \in Modules, pa \in PressureAngles, ha \in HelixAngles,
        hd \in Handednesses, b \in Backlashes :
       /\ gear' = create_in_radial_system(tc, m, pa, ha, hd, b)
       /\ call' = [op |-> "create_in_radial_system", tooth_count |-> tc, module |-> m,
                   pressure_angle |-> pa, helix_angle |-> ha, handedness |-> hd,
                   backlash |-> b]
       /\ ret' = Ok(gear')
  /\ shown' = "none"
  /\ UNCHANGED <<lastGear, lastInput, inputs, fission>>

Call_create_sunderland ==
  /\ Idle
  /\ \E tc \in ToothCounts, m \in Modules, hd \in Handednesses, b \in Backlashes :
       /\ gear' = create_sunderland(tc, m, hd, b)
       /\ call' = [op |-> "create_sunderland", tooth_count |-> tc, module |-> m,
                   pressure_angle |-> Deg(20), helix_angle |-> 225, handedness |-> hd,
                   backlash |-> b]
       /\ ret' = Ok(gear')
  /\ shown' = "none"
  /\ UNCHANGED <<lastGear, lastInput, inputs, fission>>

\* the gear a factory call leaves the handler with: none when it raised
Returned(r) == IF IsRaise(r) THEN NoGear ELSE r

Call_createInNormalSystem ==
  /\ Idle
  /\ \E tc \in ToothCounts, m \in Modules, pa \in PressureAngles, ha \in HelixAngles,
        b \in Backlashes, gm \in Modifiers \cup {None},
        mt \in Mounts \cup {None} :
       LET r == createInNormalSystem(tc, m, pa, ha, b, SC, 1250, SC, FALSE, 0, gm, mt)
       IN  /\ gear' = Returned(r)
           /\ call' = [op |-> "createInNormalSystem", tooth_count |-> tc, module |-> m,
                       pressure_angle |-> pa, helix_angle |-> ha, backlash |-> b,
                       gearmodifier |-> gm, gearmount |-> mt]
           /\ ret' = IF IsRaise(r) THEN r ELSE Ok(r)
  /\ shown' = "none"
  /\ UNCHANGED <<lastGear, lastInput, inputs, fission>>

Call_createInRadialSystem ==
  /\ Idle
  /\ \E tc \in ToothCounts, m \in Modules, pa \in PressureAngles, ha \in HelixAngles,
        b \in Backlashes, gm \in Modifiers \cup {None},
        mt \in Mounts \cup {None} :
       LET r == createInRadialSystem(tc, m, pa, ha, b, SC, 1250, SC, FALSE, 0, gm, mt)
       IN  /\ gear' = Returned(r)
           /\ call' = [op |-> "createInRadialSystem", tooth_count |-> tc, module |-> m,
                       pressure_angle |-> pa, helix_angle |-> ha, backlash |-> b,
                       gearmodifier |-> gm, gearmount |-> mt]
           /\ ret' = IF IsRaise(r) THEN r ELSE Ok(r)
  /\ shown' = "none"
  /\ UNCHANGED <<lastGear, lastInput, inputs, fission>>

Call_is_valid ==
  /\ gear.kind = "HelicalGear"
  /\ call' = [op |-> "is_valid"]
  /\ ret' = Ok(Bool(is_valid(gear)))
  /\ UNCHANGED <<gear, shown, lastGear, lastInput, inputs, fission>>

Call_is_undercut_requried ==
  /\ gear.kind = "HelicalGear"
  /\ call' = [op |-> "is_undercut_requried"]
  /\ ret' = Ok(Bool(is_undercut_requried(gear)))
  /\ UNCHANGED <<gear, shown, lastGear, lastInput, inputs, fission>>

\* on_execute calls generate_gear(True, False), on_preview calls
\* generate_gear(self.full_preview.value, True), on the gear make_gear
\* returned
Call_generate_gear ==
  /\ gear.kind = "HelicalGear"
  /\ call.op \in {"create_in_normal_system", "create_in_radial_system", "create_sunderland"}
  /\ \E t \in Thicknesses, generate_all_teeth \in BOOLEAN, is_preview \in BOOLEAN :
       /\ is_preview \/ generate_all_teeth
       /\ \E r \in {generate_gear(gear, t, generate_all_teeth, is_preview)} :
            /\ call' = [op |-> "generate_gear", gear_thickness |-> t,
                        generate_all_teeth |-> generate_all_teeth, is_preview |-> is_preview]
            /\ ret' = [ret |-> r.ret, created |-> r.created, tag |-> r.ret.tag]
  /\ UNCHANGED <<gear, shown, lastGear, lastInput, inputs, fission>>

\* The teeth of a gear are drawn one after the other, tooth 0 first (the loop
\* "for i in range(tooth_count)" of the generating handler), all with the
\* same involutePointCount; generate_gear returns before drawing when the
\* gear is not valid.
Call_Involute_draw ==
  /\ gear.kind = "HelicalGear"
  /\ is_valid(gear)
  /\ \E n \in 0 .. MaxPoints, c \in 0 .. MaxCross, h \in BOOLEAN :
       LET i == IF call.op = "Involute.draw" THEN call.tooth + 1 ELSE 0
       IN  /\ i <= MaxTooth
           /\ i < gear.tooth_count
           /\ call.op = "Involute.draw" => (n = call.involutePointCount /\ ret.tag = "ok")
           /\ call' = [op |-> "Involute.draw", tooth |-> i, involutePointCount |-> n,
                       crossCount |-> c, rootArcHits |-> h]
           /\ ret' = Involute_draw(gear, tooth_rotation(i, gear.tooth_count), n, c, h)
  /\ UNCHANGED <<gear, shown, lastGear, lastInput, inputs, fission>>

\* The same tooth is drawn once more, with the same arguments.  The modeler
\* is asked about the same curves, so its answers are the same.
Call_Involute_draw_again ==
  /\ gear.kind = "HelicalGear"
  /\ call.op = "Involute.draw"
  /\ "again" \notin DOMAIN call
  /\ call' = call @@ [again |-> TRUE]
  /\ ret' = Involute_draw(gear, tooth_rotation(call.tooth, gear.tooth_count),
                          call.involutePointCount, call.crossCount, call.rootArcHits)
  /\ UNCHANGED <<gear, shown, lastGear, lastInput, inputs, fission>>

\* The handler returns: its gear is dropped.  An exception that left a
\* handler of src/HelicalGear.py is caught by the notify wrapper of
\* src/Fission/fission.py, which shows it in a message box; the handlers of
\* src/HelicalGearPlus.py catch everything and print the traceback.
Return ==
  /\ ~Idle
  /\ gear' = NoGear
  /\ call' = NoCall
  /\ ret' = NoRet
  /\ shown' = IF ~IsRaise(ret) THEN "none"
              ELSE IF call.op \in {"createInNormalSystem", "createInRadialSystem"}
              THEN "printed"
              ELSE "messageBox"
  /\ UNCHANGED <<lastGear, lastInput, inputs, fission>>

Next ==
  \/ Call_create_in_normal_system
  \/ Call_create_in_radial_system
  \/ Call_create_sunderland
  \/ Call_createInNormalSystem
  \/ Call_createInRadialSystem
  \/ Call_is_valid
  \/ Call_is_undercut_requried
  \/ Call_generate_gear
  \/ Call_Involute_draw
  \/ Call_Involute_draw_again
  \/ Return

Spec == Init /\ [][Next]_vars

---------------------------------------------------------------------------
(* src/HelicalGearPlus.py: the involute function, its inverse and the      *)
(* properties of the meshing pair.  Angles are radians on the fine grid.   *)

\* Involute.Involute: math.tan(angle) - angle
Involute(angle) == Value({ XSub(XTan(a), a) : a \in {angle} })

\* the body of the loop of InverseInvolute, t being math.tan(angle):
\*   angle + (I - (t - angle)) / pow(t, 2)
\* a float division by 0.0 raises ZeroDivisionError
NewtonPass(I, angle, t) ==
  Value({ Value({ IF t2 = XZero THEN Raise("ZeroDivisionError", 260)
                  ELSE Ok(XAdd(a, XDiv(XSub(I, XSub(v, a)), t2))) : t2 \in {XMul(v, v)} })
          : a \in {angle}, v \in {t} })

\* one pass from the angle r.val; an exception r ends the loop
NewtonStep(I, r) ==
  Value({ IF IsRaise(q) THEN q ELSE NewtonPass(I, q.val, XTan(q.val)) : q \in {r} })

\* 1.44792 * c - 0.0472447 * c^2 - 0.29949 * I, c being pow(I, 1/3)
InverseInvoluteEstimate(I, c) ==
  Value({ XSub(XSub(XMul(<<1, 4479, 2000, 0>>, v), XMul(<<0, 472, 4470, 0>>, XMul(v, v))), XMul(<<0, 2994, 9000, 0>>, I))
          : v \in {c} })

\* the closed-form estimate alone, without the loop
InverseInvolute_estimate(I) ==
  Value({ IF v[1] < 0 THEN Raise("TypeError", 260) ELSE Ok(InverseInvoluteEstimate(v, XCbrt(v))) : v \in {I} })

\* Involute.InverseInvolute: the estimate, then "for i in range(3)" the
\* Newton pass.  pow of a negative float to 1/3 is a complex number, which
\* math.tan rejects.
InverseInvolute(I) ==
  Value({ IF v[1] < 0 THEN Raise("TypeError", 260)
          ELSE NewtonStep(v, NewtonStep(v, NewtonStep(v, Ok(InverseInvoluteEstimate(v, XCbrt(v))))))
          : v \in {I} })

\* property involuteA: math.tan(pressureAngle) - pressureAngle
involuteA(g) == Involute(XRadians(g.pressureAngle))

\* a / n for an integer n # 0
XDivSigned(a, n) == Value({ IF k < 0 THEN XNeg(XDivInt(a, -k)) ELSE XDivInt(a, k) : k \in {n} })

\* property involuteW:
\*   2 * tan(pressureAngle) * (profileShift + otherProfileShift)
\*     / (toothCount + otherToothCount) + involuteA
\* the profile shifts are in thousandths
involuteW(g) ==
  IF g.modifier.cls # "instance" THEN Raise("AttributeError", 345)
  ELSE IF g.toothCount + g.modifier.otherToothCount = 0 THEN Raise("ZeroDivisionError", 345)
  ELSE Ok(XAdd(XDivSigned(XDivInt(XMulInt(XTan(XRadians(g.pressureAngle)), 2 * (g.modifier.profileShift + g.modifier.otherProfileShift)), SC), g.toothCount + g.modifier.otherToothCount), involuteA(g)))

\* Involute.InverseInvolute applied to what involuteW returned
InverseInvoluteOf(w) == Value({ IF IsRaise(v) THEN v ELSE InverseInvolute(v.val) : v \in {w} })

\* property workingPressureAngle: Involute.InverseInvolute(self.involuteW)
workingPressureAngle(g) == InverseInvoluteOf(involuteW(g))

\* (toothCount + otherToothCount) / 2 * (cos(pressureAngle) / c - 1), c being
\* math.cos(workingPressureAngle)
IncrementFactor(g, c) ==
  Value({ IF v = XZero THEN Raise("ZeroDivisionError", 370)
          ELSE Ok(XDivInt(XMulInt(XSub(XDiv(XCos(XRadians(g.pressureAngle)), v), XOne), g.toothCount + g.modifier.otherToothCount), 2))
          : v \in {c} })

\* the increment factor from what workingPressureAngle returned
IncrementFactorOf(g, wpa) ==
  Value({ IF IsRaise(v) THEN v ELSE IncrementFactor(g, XCos(v.val)) : v \in {wpa} })

\* property centerDistanceIncrementFactor; the modifier is read first
centerDistanceIncrementFactor(g) ==
  IF g.modifier.cls # "instance" THEN Raise("AttributeError", 370)
  ELSE IncrementFactorOf(g, workingPressureAngle(g))

---------------------------------------------------------------------------
(* src/HelicalGearPlus.py: HelicalGear.modelGear and the last-gear cache.   *)

\* a body held by the temporary B-Rep manager (tbm.copy(gearBody))
Body == [cls |-> "body"]

\* the copy of the body generated for the gear g: its shape is that of g
BodyOf(g) == [cls |-> "body", of |-> g]

\* the occurrence modelGear returns
Occurrence == [cls |-> "occurrence"]

\* method tFor: reads self.pitchDiameter
tFor(g) == pitchDiameter(g)

\* HelicalGear.modelGear(parentComponent, sameAsLast) of
\* src/HelicalGearPlus.py, with the value of the global lastGear on entry.
\* The whole body is inside "try: ... except: print(traceback.format_exc())":
\* whatever is raised inside is printed and the method returns None.
\*   created  the new component was added (line 618) before anything failed
\*   body     where the component's body came from: "none", "cached", "new"
\*   raised   the exception the except clause caught, NoRet when none
\* All teeth get the same answers of the modeler; the first tooth's draw
\* decides whether the loop of line 673 raises.
modelGear(g, sameAsLast, cache, crossCount, rootArcHits) ==
  LET reuse == sameAsLast /\ cache # None
      teeth == IF g.toothCount > 0
               THEN InvoluteDraw(g, 0, 10, crossCount, rootArcHits)
               ELSE NoRet
      regenerate ==
        IF IsRaise(teeth) THEN teeth
        ELSE IF g.mount.cls # "instance" THEN Raise("AttributeError", 679)
        ELSE IF IsRaise(tFor(g)) THEN tFor(g)
        ELSE NoRet
      raised ==
        IF g.modifier.cls # "instance" THEN Raise("AttributeError", 620)
        ELSE IF ~reuse /\ IsRaise(regenerate) THEN regenerate
        ELSE IF IsRaise(pitchDiameter(g)) THEN pitchDiameter(g)
        ELSE NoRet
      bodyAdded == g.modifier.cls = "instance" /\ (reuse \/ ~IsRaise(regenerate))
  IN  [ret |-> IF IsRaise(raised) THEN Ok(None) ELSE Ok(Occurrence),
       raised |-> raised,
       printed |-> IsRaise(raised),
       created |-> TRUE,
       body |-> IF ~bodyAdded THEN "none" ELSE IF reuse THEN "cached" ELSE "new",
       lastGear |-> IF bodyAdded /\ ~reuse THEN BodyOf(g) ELSE cache]

---------------------------------------------------------------------------
(* src/HelicalGearPlus.py: class RackGear.                                 *)

\* RackGear.createInNormalSystem; addendum and dedendum are factors in
\* thousandths
RackGear_createInNormalSystem(normalModule, normalPressureAngle, helixAngle, herringbone, length, width, height, backlash, addendum, dedendum) ==
  [kind |-> "RackGear",
   normalModule |-> normalModule,
   normalPressureAngle |-> normalPressureAngle,
   helixAngle |-> helixAngle,
   herringbone |-> herringbone,
   length |-> length,
   width |-> width,
   height |-> height,
   backlash |-> backlash,
   addendum |-> FMul(addendum, normalModule),
   dedendum |-> FMul(dedendum, normalModule),
   module |-> FDiv(normalModule, Cos(helixAngle)),
   pressureAngle |-> Atan2(Tan(normalPressureAngle), Cos(helixAngle))]

\* RackGear.createInRadialSystem
RackGear_createInRadialSystem(radialModule, radialPressureAngle, helixAngle, herringbone, length, width, height, backlash, addendum, dedendum) ==
  [kind |-> "RackGear",
   module |-> radialModule,
   pressureAngle |-> radialPressureAngle,
   helixAngle |-> helixAngle,
   herringbone |-> herringbone,
   length |-> length,
   width |-> width,
   height |-> height,
   backlash |-> backlash,
   addendum |-> FMul(addendum, radialModule),
   dedendum |-> FMul(dedendum, radialModule),
   normalModule |-> FMul(radialModule, Cos(helixAngle)),
   normalPressureAngle |-> Atan(FMul(Tan(radialPressureAngle), Cos(helixAngle)))]

\* property RackGear.isInvalid: the reason of the first failing check, or
\* False
RackGear_isInvalid(g) ==
  IF g.length <= 0 THEN Ok("Length too low")
  ELSE IF g.width <= 0 THEN Ok("Width too low")
  ELSE IF g.height <= 0 THEN Ok("Height too low")
  ELSE IF g.module <= 0 THEN Ok("Module too low")
  ELSE IF g.addendum < 0 THEN Ok("Addendum too low")
  ELSE IF g.dedendum < 0 THEN Ok("Dedendum too low")
  ELSE IF g.addendum + g.dedendum <= 0 THEN Ok("Addendum too low")
  ELSE IF ~(0 < g.pressureAngle /\ g.pressureAngle < Deg(90)) THEN Ok("Invalid pressure angle")
  ELSE IF ~(Deg(-90) < g.helixAngle /\ g.helixAngle < Deg(90)) THEN Ok("Invalid helix angle")
  ELSE IF (0 - 3) * g.normalModule > g.backlash THEN Ok("Backlash too low")
  ELSE IF g.backlash > 3 * g.normalModule THEN Ok("Backlash too high")
  ELSE Ok("False")

\* RackGear.modelGear(parentComponent, sameAsLast), with the value of the
\* global lastGear on entry.  The method has no try statement: what is
\* raised inside leaves it.  modelerRaises is the answer of the modeler:
\* whether building the body from the rack lines fails.
\*   created  the new component was added (line 1004)
\*   body     where the component's body came from: "none", "cached", "new"
\* After the body and the pitch line are in place the method reads
\* self.toothCount (line 1132), which no RackGear has.
RackGear_modelGear(g, sameAsLast, cache, modelerRaises) ==
  LET reuse == sameAsLast /\ cache # None
      regenerate ==
        IF g.normalModule = 0 THEN Raise("ZeroDivisionError", 1020)
        ELSE IF g.normalPressureAngle = 0 THEN Raise("ZeroDivisionError", 944)
        ELSE IF modelerRaises THEN Raise("RuntimeError", 1090)
        ELSE NoRet
      bodyAdded == reuse \/ ~IsRaise(regenerate)
  IN  [ret |-> IF bodyAdded THEN Raise("AttributeError", 1132) ELSE regenerate,
       created |-> TRUE,
       body |-> IF ~bodyAdded THEN "none" ELSE IF reuse THEN "cached" ELSE "new",
       lastGear |-> IF bodyAdded /\ ~reuse THEN BodyOf(g) ELSE cache]

---------------------------------------------------------------------------
(* src/HelicalGearPlus.py: generateGear, which builds the gear object from *)
(* the values of the command inputs.                                       *)

\* a profile shift of the dialog, in thousandths, as a float
XShift(s) == XDivInt(XInt(s), SC)

\* the solving of lines 1786-1789 for the sum of the two profile shifts:
\*   halfTotalTeeth = (teeth1 + teeth2) / 2
\*   centerModificationCoefficient = ctrctr / module - halfTotalTeeth
\*   workingPressureAngle =
\*       acos(cos(press) / (centerModificationCoefficient / halfTotalTeeth + 1))
\*   sumshift = halfTotalTeeth * (Involute(workingPressureAngle) - Involute(press))
\*              / tan(press)
\* for teeth1 + teeth2 > 0 and ctrctr > 0
sumShift(teeth1, teeth2, ctrctr, module, press) ==
  IF module = 0 THEN Raise("ZeroDivisionError", 1787) ELSE
  LET halfTotalTeeth == XDivInt(XInt(teeth1 + teeth2), 2)
      centerModificationCoefficient == XSub(XDivSigned(XInt(ctrctr), module), halfTotalTeeth)
  IN  Value({ IF denominator = XZero THEN Raise("ZeroDivisionError", 1788) ELSE
              Value({ IF XLess(XOne, XAbs(cosine)) THEN Raise("ValueError", 1788)
                      ELSE IF tangent = XZero THEN Raise("ZeroDivisionError", 1789)
                      ELSE Ok(XDiv(XMul(halfTotalTeeth, XSub(Involute(XAcos(cosine)), Involute(XRadians(press)))), tangent))
                      : cosine \in {XDiv(XCos(XRadians(press)), denominator)},
                        tangent \in {XTan(XRadians(press))} })
              : denominator \in {XAdd(XDiv(centerModificationCoefficient, halfTotalTeeth), XOne)} })

\* the sum split evenly whatever the user has fixed
solveShifts_split(shift1, shift2, sumshift) == Value({ <<h, h>> : h \in {XDivInt(sumshift, 2)} })

\* lines 1791-1798: the two shifts after the solving
solveShifts(shift1, shift2, sumshift) ==
  Value({ IF s1 # XZero THEN <<s1, XSub(sumshift, s1)>>
          ELSE IF s2 # XZero THEN <<XSub(sumshift, s2), s2>>
          ELSE Value({ <<h, h>> : h \in {XDivInt(sumshift, 2)} })
          : s1 \in {shift1}, s2 \in {shift2} })

\* whether the solving runs: Center-Center checked, ctrctr > 0, teeth2 > 0
solving(ci) == ci.BVCtrCtr /\ ci.VICtrCtr > 0 /\ ci.ISTeeth2 > 0

\* the shifts of the External Gear branch when line 1800 is reached
shiftsAfter(ci, ss) ==
  IF solving(ci) THEN solveShifts(XShift(ci.VIShift), XShift(ci.VIShift2), ss.val)
  ELSE <<XShift(ci.VIShift), XShift(ci.VIShift2)>>

\* the GearMount(...) argument of lines 1818-1821
mountOf(ci) ==
  GearMount(IF ci.BVBore THEN ci.VIBoreDiameter ELSE 0, IF ci.BVKey THEN ci.VIKeyHeight ELSE 0, IF ci.BVKey THEN ci.VIKeyWidth ELSE 0)

\* the External Gear branch from line 1802 on.  In the Radial standard the
\* mount's values are read through commandInputs.itembyId, a name the
\* collection does not have: with Bore or Keyway checked the argument
\* raises before the factory is called.
\*   gear     what the factory returned, or the exception
\*   factory  the factory that was called, "none" when none was
\*   handed   the GearModifier handed to it; its shifts are on the fine grid
externalGear(ci, shifts, ss) ==
  Value({ Value({
      IF ci.DDStandard = "Normal"
      THEN [gear |-> createInNormalSystem(ci.ISTeeth, ci.VIModule, ci.VIPressureAngle, ci.VIHelixAngle, ci.VIBacklash, ci.VIAddendum, ci.VIDedendum, ci.VIWidth, ci.BVHerringbone, 0, handed, mountOf(ci)),
            factory |-> "HelicalGear.createInNormalSystem", handed |-> handed, sumshift |-> ss]
      ELSE IF ci.BVBore THEN [gear |-> Raise("AttributeError", 1840), factory |-> "none", handed |-> None, sumshift |-> ss]
      ELSE IF ci.BVKey THEN [gear |-> Raise("AttributeError", 1841), factory |-> "none", handed |-> None, sumshift |-> ss]
      ELSE [gear |-> createInRadialSystem(ci.ISTeeth, ci.VIModule, ci.VIPressureAngle, ci.VIHelixAngle, ci.VIBacklash, ci.VIAddendum, ci.VIDedendum, ci.VIWidth, ci.BVHerringbone, 0, handed, mountOf(ci)),
            factory |-> "HelicalGear.createInRadialSystem", handed |-> handed, sumshift |-> ss]
      : handed \in {GearModifier(sh[1], ci.ISTeeth2, sh[2], ci.VICtrCtr)} })
    : sh \in {shifts} })

\* generateGear(commandInputs).  The Internal Gear branch reads shift1 before
\* any statement of the branch has assigned it.
generateGear(ci) ==
  IF ci.DDType = "Rack Gear"
  THEN IF ci.DDStandard = "Normal"
       THEN [gear |-> RackGear_createInNormalSystem(ci.VIModule, ci.VIPressureAngle, ci.VIHelixAngle, ci.BVHerringbone, ci.VILength, ci.VIWidth, ci.VIHeight, ci.VIBacklash, ci.VIAddendum, ci.VIDedendum),
             factory |-> "RackGear.createInNormalSystem", handed |-> None, sumshift |-> NoRet]
       ELSE [gear |-> RackGear_createInRadialSystem(ci.VIModule, ci.VIPressureAngle, ci.VIHelixAngle, ci.BVHerringbone, ci.VILength, ci.VIWidth, ci.VIHeight, ci.VIBacklash, ci.VIAddendum, ci.VIDedendum),
             factory |-> "RackGear.createInRadialSystem", handed |-> None, sumshift |-> NoRet]
  ELSE IF ci.DDType = "External Gear"
  THEN Value({ IF IsRaise(ss) THEN [gear |-> ss, factory |-> "none", handed |-> None, sumshift |-> ss]
               ELSE externalGear(ci, shiftsAfter(ci, ss), ss)
               : ss \in {IF solving(ci)
                         THEN sumShift(ci.ISTeeth, ci.ISTeeth2, ci.VICtrCtr, ci.VIModule, ci.VIPressureAngle)
                         ELSE NoRet} })
  ELSE [gear |-> Raise("UnboundLocalError", IF ci.DDStandard = "Normal" THEN 1857 ELSE 1871),
        factory |-> "none", handed |-> None, sumshift |-> NoRet]

---------------------------------------------------------------------------
(* src/HelicalGearPlus.py: the command dialog and its event handlers.      *)
(* Every notify method is "try: ... except: print(traceback.format_exc())":*)
(* an exception ends the handler where it is raised and is printed.        *)

\* the values of the command inputs when the dialog is created: those of
\* the dictionary pers (lengths in ten-thousandths, factors in thousandths).
\* isVisible holds the visibility of the inputs of the Bore tab that the
\* handlers switch; every input is created visible.
DefaultInputs ==
  [DDType |-> "External Gear", DDStandard |-> "Normal", VIHelixAngle |-> Deg(30),
   VIPressureAngle |-> Deg(20), VIModule |-> 3000, ISTeeth |-> 16, VIBacklash |-> 0,
   VIWidth |-> 10000, VIHeight |-> 8000, VILength |-> 100000, VIDiameter |-> 80000,
   BVHerringbone |-> FALSE, BVPreview |-> FALSE, VIAddendum |-> SC, VIDedendum |-> 1250,
   VIShift |-> 0, BVCtrCtr |-> FALSE, VIShift2 |-> 0, VICtrCtr |-> 0, ISTeeth2 |-> 24,
   BVNoUnderCut |-> FALSE, BVBore |-> TRUE, VIBoreDiameter |-> 6000, BVKey |-> TRUE,
   VIKeyWidth |-> 3000, VIKeyHeight |-> 3000,
   TabProperties |-> FALSE, TBProperties |-> "", TBWarning1 |-> "",
   isVisible |-> [VIBoreDiameter |-> TRUE, BVKey |-> TRUE, VIKeyWidth |-> TRUE, VIKeyHeight |-> TRUE]]

\* the inputs whose change lets the preview handler reuse the last body
PositionalInputs ==
  {"APITabBar", "SIPlane", "SIOrigin", "SIDirection", "DDDirection", "AVRotation",
   "BVFlipped", "DVOffsetX", "DVOffsetY", "DVOffsetZ", "SIGear", "SIGear2"}

\* whether generateGear raised instead of returning the gear g
Failed(g) == "tag" \in DOMAIN g /\ g.tag = "raise"

\* what a handler has done when it ends
\*   inputs       the values of the command inputs
\*   raised       the exception that ended it, NoRet when none
\*   gear         the last gear generateGear returned to it, NoGear when none
\*   written      the attributes of that gear the handler assigned
Handled(ci, raised, g, written) == [inputs |-> ci, raised |-> raised, gear |-> g, written |-> written]

\* lines 1516-1534: a change of the gear type unchecks Bore and Keyway for
\* every type but External Gear
afterType(ci, id) ==
  IF id = "DDType" /\ ci.DDType # "External Gear"
  THEN [ci EXCEPT !.BVBore = FALSE, !.BVKey = FALSE] ELSE ci

\* lines 1538-1549: without a bore there is no keyway; the diameter and the
\* Keyway box are shown with Bore checked, the key's width and height with
\* Bore and Keyway checked
afterBore(ci, id) ==
  IF id \in {"BVBore", "BVKey"}
  THEN [ci EXCEPT !.BVKey = ci.BVBore /\ ci.BVKey,
                  !.isVisible = [VIBoreDiameter |-> ci.BVBore, BVKey |-> ci.BVBore,
                                 VIKeyWidth |-> ci.BVBore /\ ci.BVKey,
                                 VIKeyHeight |-> ci.BVBore /\ ci.BVKey]]
  ELSE ci

\* lines 1555-1558 on the gear g whose modifier.profileShift has been set to
\* 0: the shift 1 - toothCount / Zcrit for fewer teeth than
\* Zcrit = floor(critcalVirtualToothCount)
shiftAgainstUndercut(ci, g, c) ==
  Value({ IF IsRaise(z) THEN Handled(ci, z, o, {"modifier.profileShift"})
          ELSE IF z.val = Inf THEN Handled(ci, Raise("OverflowError", 1555), o, {"modifier.profileShift"})
          ELSE IF o.toothCount < z.val \div SC
          THEN Handled([ci EXCEPT !.VIShift = SC - (o.toothCount * SC) \div (z.val \div SC)], NoRet, o, {"modifier.profileShift"})
          ELSE Handled(ci, NoRet, o, {"modifier.profileShift"}) : o \in {g}, z \in {c} })

\* lines 1551-1558: checking NoUnderCut generates the gear, assigns 0 to the
\* profile shift of its modifier and writes the shift that avoids undercut
\* into VIShift.  A RackGear has no modifier.
afterNoUnderCut(ci, id, g) ==
  IF ~(id = "BVNoUnderCut" /\ ci.BVNoUnderCut) THEN Handled(ci, NoRet, NoGear, {})
  ELSE IF Failed(g) THEN Handled(ci, g, NoGear, {})
  ELSE IF g.kind = "RackGear" THEN Handled(ci, Raise("AttributeError", 1554), g, {})
  ELSE Value({ shiftAgainstUndercut(ci, o, critcalVirtualToothCount(o)) : o \in {[g EXCEPT !.modifier.profileShift = 0]} })

\* lines 1560-1561: NoUnderCut is unchecked when one of these inputs changes
afterDeselect(ci, id) ==
  IF id \in {"VIShift", "DDType", "ISTeeth", "VIModule", "VIHelixAngle", "VIPressureAngle"}
  THEN [ci EXCEPT !.BVNoUnderCut = FALSE] ELSE ci

\* str(gear): RackGear.__str__ formats four attributes; HelicalGear.__str__
\* reads baseDiameter in its second line
strOf(g) == IF g.kind = "RackGear" THEN Ok("info") ELSE baseDiameter(g)

\* gear.isInvalid of either class
isInvalidOf(g) == IF g.kind = "RackGear" THEN RackGear_isInvalid(g) ELSE isInvalid(g)

\* lines 1570-1575: with the Info tab active the gear is generated and its
\* description shown
afterInfo(h, g) ==
  IF IsRaise(h.raised) \/ ~h.inputs.TabProperties THEN h
  ELSE IF Failed(g) THEN Handled(h.inputs, g, h.gear, h.written)
  ELSE Value({ IF IsRaise(str) THEN Handled(h.inputs, str, g, {})
               ELSE Handled([h.inputs EXCEPT !.TBProperties = str.val], NoRet, g, {}) : str \in {strOf(g)} })

\* lines 1577-1588: the gear is generated and its isInvalid shown as the
\* warning, for every input whose id does not start with "TB"
afterWarning(h, g) ==
  IF IsRaise(h.raised) THEN h
  ELSE IF Failed(g) THEN Handled(h.inputs, g, h.gear, h.written)
  ELSE Value({ IF IsRaise(isInv) THEN Handled(h.inputs, isInv, g, {})
               ELSE Handled([h.inputs EXCEPT !.TBWarning1 = IF isInv.val = "False" THEN "" ELSE isInv.val], NoRet, g, {})
               : isInv \in {isInvalidOf(g)} })

\* the statements after line 1550 on the inputs ci left by the first two
\* blocks; the inputs of the later blocks are those the NoUnderCut block
\* left
afterBlocks(h, id) ==
  Value({ Value({ Value({ afterWarning(hi, g) : hi \in {afterInfo(Handled(ci, h.raised, h.gear, h.written), g)} })
                  : g \in {IF IsRaise(h.raised) THEN NoGear ELSE generateGear(ci).gear} })
          : ci \in {IF IsRaise(h.raised) THEN h.inputs ELSE afterDeselect(h.inputs, id)} })

\* CommandInputChangedHandler.notify after the input id has taken its new
\* value: ci are the values of the inputs at that moment.  The positioning
\* statements of lines 1590-1689 act on the manipulators only.
inputChanged(ci, id) ==
  Value({ Value({ Value({ afterBlocks(h, id) : h \in {afterNoUnderCut(c2, id, g)} })
                  : g \in {IF id = "BVNoUnderCut" /\ c2.BVNoUnderCut THEN generateGear(c2).gear ELSE NoGear} })
          : c2 \in {afterBore(afterType(ci, id), id)} })

\* CommandValidateInputsEventHandler.notify: args.areInputsValid is assigned
\* not isInvalid, and left as it was when generateGear or isInvalid raises
validateInputs(ci) ==
  Value({ IF Failed(g) THEN [raised |-> g, gear |-> NoGear, areInputsValid |-> "unassigned"]
          ELSE Value({ IF IsRaise(isInv) THEN [raised |-> isInv, gear |-> g, areInputsValid |-> "unassigned"]
                       ELSE [raised |-> NoRet, gear |-> g, areInputsValid |-> Bool(isInv.val = "False")]
                       : isInv \in {isInvalidOf(g)} })
          : g \in {generateGear(ci).gear} })

\* the answers of the modeler a modelGear call may get
Answers(g) ==
  IF Failed(g) THEN {[modelerRaises |-> FALSE, crossCount |-> 0, rootArcHits |-> TRUE]}
  ELSE IF g.kind = "RackGear"
  THEN {[modelerRaises |-> b, crossCount |-> 0, rootArcHits |-> TRUE] : b \in BOOLEAN}
  ELSE {[modelerRaises |-> FALSE, crossCount |-> c, rootArcHits |-> h] : c \in 0 .. MaxCross, h \in BOOLEAN}

\* moveGear(gear, commandInputs) on what HelicalGear.modelGear returned:
\* line 1889 assigns gear.transform
moveGear(occurrence) == IF occurrence = None THEN Raise("AttributeError", 1889) ELSE NoRet

\* generateGear(commandInputs).modelGear(rootComponent, sameAsLast) followed
\* by moveGear, as the execute and preview handlers run them
\*   created   a component was added to the design
\*   body      where its body came from: "none", "cached", "new"
\*   lastGear  the global lastGear afterwards
generateAndModel(g, sameAsLast, cache, answer) ==
  IF Failed(g)
  THEN [raised |-> g, gear |-> NoGear, created |-> FALSE, body |-> "none", lastGear |-> cache]
  ELSE IF g.kind = "RackGear"
  THEN Value({ [raised |-> m.ret, gear |-> g, created |-> m.created, body |-> m.body, lastGear |-> m.lastGear]
               : m \in {RackGear_modelGear(g, sameAsLast, cache, answer.modelerRaises)} })
  ELSE Value({ [raised |-> moveGear(m.ret.val), gear |-> g, created |-> m.created, body |-> m.body, lastGear |-> m.lastGear]
               : m \in {modelGear(g, sameAsLast, cache, answer.crossCount, answer.rootArcHits)} })

\* the values an input of the dialog is changed to
InputValues ==
  [DDType |-> {"External Gear", "Rack Gear"},
   VIPressureAngle |-> {0, Deg(20)},
   BVPreview |-> BOOLEAN,
   BVNoUnderCut |-> BOOLEAN]

InitCmd ==
  /\ gear = NoGear
  /\ call = NoCall
  /\ ret = NoRet
  /\ shown = "none"
  /\ lastGear = None
  /\ lastInput = ""
  /\ inputs = DefaultInputs
  /\ Unwired

\* the user changes the value of an input: the input has its new value when
\* the handler runs, and the handler's first statement records its id
InputChanged ==
  \E id \in DOMAIN InputValues :
    \E v \in InputValues[id] \ {inputs[id]} :
      \E h \in {inputChanged([inputs EXCEPT ![id] = v], id)} :
          /\ lastInput' = id
          /\ inputs' = h.inputs
          /\ gear' = h.gear
          /\ call' = [op |-> "inputChanged", id |-> id]
          /\ ret' = [raised |-> h.raised, written |-> h.written]
          /\ shown' = IF IsRaise(h.raised) THEN "printed" ELSE "none"
          /\ UNCHANGED <<lastGear, fission>>

\* the user acts on the tab bar or on a positioning input; the Info tab is
\* entered or left through the tab bar
PositionChanged ==
  \E id \in PositionalInputs, tab \in BOOLEAN :
    /\ tab = inputs.TabProperties \/ id = "APITabBar"
    /\ \E h \in {inputChanged([inputs EXCEPT !.TabProperties = tab], id)} :
        /\ lastInput' = id
        /\ inputs' = h.inputs
        /\ gear' = h.gear
        /\ call' = [op |-> "inputChanged", id |-> id]
        /\ ret' = [raised |-> h.raised, written |-> h.written]
        /\ shown' = IF IsRaise(h.raised) THEN "printed" ELSE "none"
        /\ UNCHANGED <<lastGear, fission>>

ValidateInputs ==
  \E v \in {validateInputs(inputs)} :
      /\ gear' = v.gear
      /\ call' = [op |-> "validateInputs"]
      /\ ret' = [raised |-> v.raised, areInputsValid |-> v.areInputsValid]
      /\ shown' = IF IsRaise(v.raised) THEN "printed" ELSE "none"
      /\ UNCHANGED <<lastGear, lastInput, inputs, fission>>

\* CommandExecutePreviewHandler.notify
ExecutePreview ==
  \E g \in {IF inputs.BVPreview THEN generateGear(inputs).gear ELSE NoGear} :
      IF ~inputs.BVPreview
      THEN /\ gear' = NoGear
           /\ call' = [op |-> "executePreview", reuseGear |-> FALSE, cache |-> lastGear]
           /\ ret' = [raised |-> NoRet, created |-> FALSE, body |-> "none", isValidResult |-> "False"]
           /\ shown' = "none"
           /\ UNCHANGED <<lastGear, lastInput, inputs, fission>>
      ELSE \E answer \in Answers(g) :
             \E m \in {generateAndModel(g, lastInput \in PositionalInputs, lastGear, answer)} :
                 /\ gear' = m.gear
                 /\ call' = [op |-> "executePreview", reuseGear |-> lastInput \in PositionalInputs, cache |-> lastGear]
                 /\ ret' = [raised |-> m.raised, created |-> m.created, body |-> m.body,
                            isValidResult |-> IF IsRaise(m.raised) THEN "unassigned" ELSE "True"]
                 /\ shown' = IF IsRaise(m.raised) THEN "printed" ELSE "none"
                 /\ lastGear' = m.lastGear
                 /\ UNCHANGED <<lastInput, inputs, fission>>

\* CommandExecuteHandler.notify: modelGear is called without sameAsLast
Execute ==
  \E g \in {generateGear(inputs).gear} :
      \E answer \in Answers(g) :
        \E m \in {generateAndModel(g, FALSE, lastGear, answer)} :
            /\ gear' = m.gear
            /\ call' = [op |-> "execute", reuseGear |-> FALSE, cache |-> lastGear]
            /\ ret' = [raised |-> m.raised, created |-> m.created, body |-> m.body,
                       isValidResult |-> "unassigned"]
            /\ shown' = IF IsRaise(m.raised) THEN "printed" ELSE "none"
            /\ lastGear' = m.lastGear
            /\ UNCHANGED <<lastInput, inputs, fission>>

NextCmd ==
  \/ InputChanged
  \/ PositionChanged
  \/ ValidateInputs
  \/ ExecutePreview
  \/ Execute

SpecCmd == InitCmd /\ [][NextCmd]_vars

---------------------------------------------------------------------------
(* src/HelicalGearPlus.py: the dialog under changes of the gear type and   *)
(* of the Bore and Keyway boxes.                                           *)

\* the values the user gives to the inputs
BoreValues ==
  [DDType |-> {"External Gear", "Internal Gear", "Rack Gear"},
   DDStandard |-> {"Normal", "Radial"},
   BVBore |-> BOOLEAN,
   BVKey |-> BOOLEAN,
   VIBoreDiameter |-> {0, 6000}]

\* the user changes the gear type, the standard or the bore diameter or
\* toggles Bore or Keyway
BoreChanged ==
  \E id \in DOMAIN BoreValues :
    \E v \in BoreValues[id] \ {inputs[id]} :
      \E h \in {inputChanged([inputs EXCEPT ![id] = v], id)} :
          /\ lastInput' = id
          /\ inputs' = h.inputs
          /\ gear' = h.gear
          /\ call' = [op |-> "inputChanged", id |-> id]
          /\ ret' = [raised |-> h.raised, written |-> h.written]
          /\ shown' = IF IsRaise(h.raised) THEN "printed" ELSE "none"
          /\ UNCHANGED <<lastGear, fission>>

NextBore == BoreChanged

SpecBore == InitCmd /\ [][NextBore]_vars

---------------------------------------------------------------------------
(* src/Fission/fission.py: FusionEventHandler and InputFactory, as the     *)
(* add-in of src/HelicalGear.py uses them.  A command has one event source *)
(* per event name; event.add(h) puts the handler h on the source.  A       *)
(* source notifies the handlers on it that an object still holds in its    *)
(* __event_handlers.  A handler that has been replaced there is referenced *)
(* by nothing any more: the interpreter releases it at once, and a         *)
(* released handler is not notified.                                       *)

\* the FusionEventHandler objects: the add-in (a CommandBase) and the
\* InputFactory that CommandBase.__on_create constructs for the same command
Objects == {"HelicalGearAddin", "InputFactory"}

\* the keys of the dictionary events of _wire_event
SupportedEvents ==
  {"command_created", "destroy", "execute", "activate", "deactivate", "preview",
   "input_changed", "validate_inputs", "key_down", "key_up", "mouse_click",
   "mouse_double_click", "mouse_down", "mouse_move", "mouse_up", "mouse_wheel",
   "mouse_drag_begin", "mouse_drag", "mouse_drag_end", "selecting"}

\* the event names _wire_event is called with one by one: "scroll" is no
\* key of events
EventNames == {"input_changed", "scroll"}

\* the events the command fires
Fired == {"execute", "preview", "input_changed", "validate_inputs"}

\* the methods of an object that carry a return annotation, in the order of
\* dir(self)
Annotated(self) ==
  IF self = "HelicalGearAddin"
  THEN <<[name |-> "_HelicalGearAddin__on_input_changed", event |-> "input_changed"],
         [name |-> "on_execute", event |-> "execute"],
         [name |-> "on_preview", event |-> "preview"]>>
  ELSE <<[name |-> "_InputFactory__on_input_changed", event |-> "input_changed"],
         [name |-> "_InputFactory__on_validate", event |-> "validate_inputs"]>>

\* the most handlers added to one event source
MaxWired == 3

\* a registry that keeps the handler it already has for the event
_wire_event_keep(self, event, callback, added, eh, cmd) ==
  IF event \notin SupportedEvents \/ ~added THEN [event_handlers |-> eh, command |-> cmd]
  ELSE LET h == [object |-> self, callback |-> callback, n |-> Len(cmd[event]) + 1]
       IN  [event_handlers |-> IF eh[self][event] = None THEN [eh EXCEPT ![self][event] = h] ELSE eh,
            command |-> [cmd EXCEPT ![event] = Append(@, h)]]

\* self._wire_event(command, event, callback): a _Handler is created and
\* added to the event source; added is what event.add returned.  For an
\* event that is no key of events, or when event.add failed, h is None and
\* nothing is recorded.
_wire_event(self, event, callback, added, eh, cmd) ==
  IF event \notin SupportedEvents \/ ~added THEN [event_handlers |-> eh, command |-> cmd]
  ELSE LET h == [object |-> self, callback |-> callback, n |-> Len(cmd[event]) + 1]
       IN  [event_handlers |-> [eh EXCEPT ![self][event] = h],
            command |-> [cmd EXCEPT ![event] = Append(@, h)]]

\* self._auto_wire(command) from the i-th annotated method on
RECURSIVE _auto_wire(_, _, _, _, _)
_auto_wire(self, i, added, eh, cmd) ==
  IF i > Len(Annotated(self)) THEN [event_handlers |-> eh, command |-> cmd]
  ELSE LET w == _wire_event(self, Annotated(self)[i].event, Annotated(self)[i].name, added[i], eh, cmd)
       IN  _auto_wire(self, i + 1, added, w.event_handlers, w.command)

\* the handlers on the source of the event that their object still holds
Registered(event) ==
  {h \in {command[event][i] : i \in DOMAIN command[event]} : event_handlers[h.object][event] = h}

\* the input ids validate callbacks are registered for
InputIds == {"helix_angle", "module"}

\* a validate callback, named by what it does for the value its input has:
\* it returns True, returns False or raises; "None" is no callback
Callbacks == {"True", "False", "raise"}

\* InputFactory.handle_validate(input, callback): a dict keeps the position
\* of a key that is assigned again
handle_validate(cbs, id, callback) ==
  IF callback # "None"
  THEN IF \E i \in DOMAIN cbs : cbs[i].id = id
       THEN [i \in DOMAIN cbs |-> IF cbs[i].id = id THEN [id |-> id, callback |-> callback] ELSE cbs[i]]
       ELSE Append(cbs, [id |-> id, callback |-> callback])
  ELSE SelectSeq(cbs, LAMBDA e : e.id # id)

\* the loop of __on_validate from the i-th callback on, valid being True:
\* the value of valid after the loop and the number of callbacks called
RECURSIVE validate_loop(_, _)
validate_loop(cbs, i) ==
  IF i > Len(cbs) THEN [valid |-> TRUE, called |-> Len(cbs)]
  ELSE IF cbs[i].callback = "True" THEN validate_loop(cbs, i + 1)
  ELSE [valid |-> FALSE, called |-> i]

\* a validate handler that assigns valid to args.areInputsValid
__on_validate_assign(cbs, areInputsValid) ==
  [areInputsValid |-> validate_loop(cbs, 1).valid, called |-> validate_loop(cbs, 1).called]

\* InputFactory.__on_validate(args): args.areInputsValid &= valid; the
\* add-in sets no additional_validator
__on_validate(cbs, areInputsValid) ==
  [areInputsValid |-> areInputsValid /\ validate_loop(cbs, 1).valid, called |-> validate_loop(cbs, 1).called]

\* the command has been created and both objects constructed; nothing is
\* wired yet
InitWire ==
  /\ gear = NoGear
  /\ call = NoCall
  /\ ret = NoRet
  /\ shown = "none"
  /\ lastGear = None
  /\ lastInput = ""
  /\ inputs = NoInputs
  /\ event_handlers = [o \in Objects |-> [e \in SupportedEvents |-> None]]
  /\ command = [e \in SupportedEvents |-> <<>>]
  /\ validate_callbacks = <<>>

\* one call of _wire_event with the first annotated method of the object
Call_wire_event ==
  \E self \in Objects, event \in EventNames, i \in {1}, added \in BOOLEAN :
    /\ event \in SupportedEvents => Len(command[event]) < MaxWired
    /\ \E w \in {_wire_event(self, event, Annotated(self)[i].name, added, event_handlers, command)} :
         /\ event_handlers' = w.event_handlers
         /\ command' = w.command
    /\ call' = [op |-> "_wire_event", self |-> self, event |-> event,
                callback |-> Annotated(self)[i].name, added |-> added]
    /\ ret' = NoRet
    /\ UNCHANGED <<gear, shown, lastGear, lastInput, inputs, validate_callbacks>>

\* self._auto_wire(command), as CommandBase.__on_create and
\* InputFactory.__init__ call it
Call_auto_wire ==
  \E self \in Objects, added \in [1 .. 3 -> BOOLEAN] :
    /\ \A i \in DOMAIN Annotated(self) : Len(command[Annotated(self)[i].event]) < MaxWired
    /\ \E w \in {_auto_wire(self, 1, added, event_handlers, command)} :
         /\ event_handlers' = w.event_handlers
         /\ command' = w.command
    /\ call' = [op |-> "_auto_wire", self |-> self, added |-> added]
    /\ ret' = NoRet
    /\ UNCHANGED <<gear, shown, lastGear, lastInput, inputs, validate_callbacks>>

\* input_factory.handle_validate(input, callback)
Call_handle_validate ==
  \E id \in InputIds, callback \in Callbacks \cup {"None"} :
    /\ validate_callbacks' = handle_validate(validate_callbacks, id, callback)
    /\ call' = [op |-> "handle_validate", id |-> id, callback |-> callback]
    /\ ret' = NoRet
    /\ UNCHANGED <<gear, shown, lastGear, lastInput, inputs, event_handlers, command>>

\* the command fires an event: the registered handlers on its source are
\* notified.  args.areInputsValid has the value the command or an earlier
\* handler gave it; __on_validate acts on it when the handler of the
\* InputFactory's method is notified.
Notify ==
  \E event \in Fired, areInputsValid \in BOOLEAN :
    /\ Registered(event) # {}
    /\ call' = [op |-> "notify", event |-> event, receivers |-> Registered(event),
                areInputsValid |-> areInputsValid]
    /\ ret' = IF \E h \in Registered(event) : h.callback = "_InputFactory__on_validate"
              THEN __on_validate(validate_callbacks, areInputsValid)
              ELSE [areInputsValid |-> areInputsValid, called |-> 0]
    /\ UNCHANGED <<gear, shown, lastGear, lastInput, inputs, fission>>

NextWire ==
  \/ Call_wire_event
  \/ Call_auto_wire
  \/ Notify

SpecWire == InitWire /\ [][NextWire]_vars

\* the InputFactory has been constructed: its __init__ has auto-wired it
InitValidate ==
  /\ gear = NoGear
  /\ call = NoCall
  /\ ret = NoRet
  /\ shown = "none"
  /\ lastGear = None
  /\ lastInput = ""
  /\ inputs = NoInputs
  /\ \E w \in {_auto_wire("InputFactory", 1, <<TRUE, TRUE>>, [o \in Objects |-> [e \in SupportedEvents |-> None]], [e \in SupportedEvents |-> <<>>])} :
       /\ event_handlers = w.event_handlers
       /\ command = w.command
  /\ validate_callbacks = <<>>

NextValidate ==
  \/ Call_handle_validate
  \/ Notify

SpecValidate == InitValidate /\ [][NextValidate]_vars

---------------------------------------------------------------------------
(* src/HelicalGearPlus.py: the persistence dictionary pers, preserveInputs *)
(* and the creation of the dialog from pers, applied to dialogs whose      *)
(* values are drawn from bounded sets.                                     *)

\* the module-level dictionary pers as the module defines it
pers == [k \in DOMAIN DefaultInputs \ {"TabProperties", "TBProperties", "TBWarning1", "isVisible"} |-> DefaultInputs[k]]

\* the keys preserveInputs assigns (lines 1712-1733)
PreservedKeys ==
  {"DDType", "DDStandard", "VIHelixAngle", "VIPressureAngle", "VIModule", "ISTeeth",
   "VIBacklash", "VIWidth", "VIHeight", "VILength", "VIDiameter", "BVHerringbone",
   "VIAddendum", "VIDedendum", "VIShift", "BVNoUnderCut", "VICtrCtr", "VIShift2",
   "ISTeeth2", "VIBoreDiameter", "VIKeyWidth", "VIKeyHeight"}

\* preserveInputs(commandInputs, pers): the dictionary afterwards
preserveInputs(commandInputs, p) ==
  [k \in DOMAIN p |-> IF k \in PreservedKeys THEN commandInputs[k] ELSE p[k]]

\* CommandCreatedHandler.notify: every input is created with the value pers
\* has under its id; the Info tab is not active and the texts are empty
commandCreated(p) ==
  [k \in DOMAIN DefaultInputs |-> IF k \in DOMAIN p THEN p[k] ELSE DefaultInputs[k]]

\* the dialogs at the moment of the execute
PersInputs ==
  {[DefaultInputs EXCEPT !.DDType = type, !.ISTeeth = z, !.VIShift = s, !.BVBore = bore,
                         !.BVKey = key, !.BVCtrCtr = cc, !.BVPreview = pv] :
     type \in {"External Gear", "Internal Gear", "Rack Gear"}, z \in {16, 20}, s \in {0, 500},
     bore \in BOOLEAN, key \in BOOLEAN, cc \in BOOLEAN, pv \in BOOLEAN}

\* ret holds the dictionary pers
InitPers ==
  /\ gear = NoGear
  /\ call = NoCall
  /\ ret = pers
  /\ shown = "none"
  /\ lastGear = None
  /\ lastInput = ""
  /\ inputs \in PersInputs
  /\ Unwired

\* the first statement of the execute handler (line 1450) and of the preview
\* handler when Preview is checked (line 1471)
Call_preserveInputs ==
  /\ Idle
  /\ call' = [op |-> "preserveInputs", commandInputs |-> inputs]
  /\ ret' = preserveInputs(inputs, ret)
  /\ UNCHANGED <<gear, shown, lastGear, lastInput, inputs, fission>>

\* the command is started again: a new dialog is created from pers
CommandCreated ==
  /\ call.op = "preserveInputs"
  /\ call' = [op |-> "commandCreated", executed |-> call.commandInputs]
  /\ inputs' = commandCreated(ret)
  /\ UNCHANGED <<gear, ret, shown, lastGear, lastInput, fission>>

NextPers ==
  \/ Call_preserveInputs
  \/ CommandCreated

SpecPers == InitPers /\ [][NextPers]_vars

---------------------------------------------------------------------------
(* generateGear of src/HelicalGearPlus.py applied to command inputs whose  *)
(* values are drawn from bounded sets: the defaults with other values for  *)
(* the inputs the External Gear branch reads, and the two other gear types *)
(* in both standards.                                                      *)

\* center distances: none, too short for the teeth (20 modules is the
\* unshifted distance of 16 + 24 teeth), the unshifted one, a longer one
CenterDistances == {0, 50000, 60000, 62000}

GenInputs ==
  {[DefaultInputs EXCEPT !.DDStandard = std, !.BVCtrCtr = bv, !.VICtrCtr = c, !.ISTeeth2 = t2,
                         !.VIShift = s1, !.VIShift2 = s2, !.VIPressureAngle = pa, !.BVBore = bore] :
     std \in {"Normal", "Radial"}, bv \in BOOLEAN, c \in CenterDistances, t2 \in {1, 24},
     s1 \in {0 - 200, 0, 500}, s2 \in {0, 300}, pa \in {0, Deg(20)}, bore \in BOOLEAN}
  \cup {[DefaultInputs EXCEPT !.DDType = type, !.DDStandard = std, !.VIPressureAngle = pa] :
          type \in {"Internal Gear", "Rack Gear"}, std \in {"Normal", "Radial"}, pa \in {0, Deg(20)}}

InitGen ==
  /\ gear = NoGear
  /\ call = NoCall
  /\ ret = NoRet
  /\ shown = "none"
  /\ lastGear = None
  /\ lastInput = ""
  /\ inputs \in GenInputs
  /\ Unwired

\* generateGear(commandInputs); ret is what it returned or raised, call
\* what it handed to which factory
Call_generateGear ==
  /\ Idle
  /\ \E r \in {generateGear(inputs)} :
         /\ call' = [op |-> "generateGear", factory |-> r.factory, handed |-> r.handed, sumshift |-> r.sumshift]
         /\ ret' = r.gear
  /\ UNCHANGED <<gear, shown, lastGear, lastInput, inputs, fission>>

\* the result is consumed
DoneGen ==
  /\ call.op = "generateGear"
  /\ call' = [op |-> "done"]
  /\ ret' = NoRet
  /\ UNCHANGED <<gear, shown, lastGear, lastInput, inputs, fission>>

NextGen ==
  \/ Call_generateGear
  \/ DoneGen

SpecGen == InitGen /\ [][NextGen]_vars

---------------------------------------------------------------------------
(* The properties of class HelicalGear of src/HelicalGearPlus.py applied   *)
(* to gear objects whose attributes are drawn from bounded sets.           *)

ProfileShifts == {0, 500, SC}

\* A HelicalGear object with every attribute assigned that the class reads:
\* 16 teeth of normal module 0.03 at normal pressure angle 20 degrees, spur.
ObjGear(profileshift) ==
  GearSoFar(16, 0, 0, SC, FALSE, 0, GearModifier(profileshift, 24, 0, 0),
            GearMount(600, 300, 300), 300, Deg(20), 300, Deg(20))
  @@ [addendum |-> 300, wholeDepth |-> 675, tipDiameter |-> 5400,
      outsideDiameter |-> 5400, rootDiameter |-> 4050, circularPitch |-> 942]

\* attribute assignments "gear.<f> = <v>" that move one attribute of the
\* object away from (or onto) a limit the properties test
Deviations ==
  {[f |-> "width", v |-> w] : w \in {0, SC}}
  \cup {[f |-> "helixAngle", v |-> a] :
          a \in {Deg(-120), Deg(-90), Deg(30), Deg(90), Deg(120)}}
  \cup {[f |-> "module", v |-> 0], [f |-> "addendum", v |-> 0],
        [f |-> "wholeDepth", v |-> 0], [f |-> "circularPitch", v |-> 0],
        [f |-> "outsideDiameter", v |-> 0]}
  \cup {[f |-> "pressureAngle", v |-> a] : a \in {0 - 10, 0, Deg(75), Deg(80), Deg(80) + 10}}
  \cup {[f |-> "normalPressureAngle", v |-> a] :
          a \in {0 - 10, 0, Deg(80), Deg(80) + 10, Deg(90)}}
  \cup {[f |-> "toothCount", v |-> z] : z \in {0, 2, 18}}
  \cup {[f |-> "backlash", v |-> b] : b \in {300, 600, 0 - 600}}
  \cup {[f |-> "internalOutsideDiameter", v |-> d] : d \in {5400, 7000}}
  \cup {[f |-> "rootDiameter", v |-> d] : d \in {RootFloor, RootFloor + 1}}

\* the object after one assignment; virtualTeeth is kept at
\* toothCount / cos(helixAngle)^3, as the factories compute it
Assign(g, d) ==
  IF d.f = "helixAngle"
  THEN [g EXCEPT !.helixAngle = d.v,
                 !.virtualTeeth = virtualTeeth(g.toothCount, Cos(d.v))]
  ELSE IF d.f = "toothCount"
  THEN [g EXCEPT !.toothCount = d.v,
                 !.virtualTeeth = virtualTeeth(d.v, Cos(g.helixAngle))]
  ELSE [g EXCEPT ![d.f] = d.v]

InitObj ==
  /\ \E x \in ProfileShifts, d1 \in Deviations, d2 \in Deviations :
       gear = Assign(Assign(ObjGear(x), d1), d2)
  /\ call = NoCall
  /\ ret = NoRet
  /\ shown = "none"
  /\ lastGear \in {None, Body}
  /\ lastInput = ""
  /\ inputs = NoInputs
  /\ Unwired

Call_isInvalid ==
  /\ Idle
  /\ gear.kind = "HelicalGearPlus"
  /\ call' = [op |-> "isInvalid"]
  /\ ret' = isInvalid(gear)
  /\ UNCHANGED <<gear, shown, lastGear, lastInput, inputs, fission>>

Call_isUndercutRequried ==
  /\ Idle
  /\ gear.kind = "HelicalGearPlus"
  /\ call' = [op |-> "isUndercutRequried"]
  /\ ret' = isUndercutRequried(gear)
  /\ UNCHANGED <<gear, shown, lastGear, lastInput, inputs, fission>>

Call_InvoluteDraw ==
  /\ Idle
  /\ gear.kind = "HelicalGearPlus"
  /\ \E n \in 0 .. MaxPoints, c \in 0 .. MaxCross, h \in BOOLEAN :
       /\ call' = [op |-> "Involute.draw", tooth |-> 0, involutePointCount |-> n,
                   crossCount |-> c, rootArcHits |-> h]
       /\ ret' = InvoluteDraw(gear, 0, n, c, h)
  /\ UNCHANGED <<gear, shown, lastGear, lastInput, inputs, fission>>

\* gear.modelGear(rootComponent, sameAsLast) as the execute and preview
\* handlers call it
Call_modelGear ==
  /\ Idle
  /\ gear.kind = "HelicalGearPlus"
  /\ \E sameAsLast \in BOOLEAN, c \in 0 .. MaxCross, h \in BOOLEAN :
       LET m == modelGear(gear, sameAsLast, lastGear, c, h)
       IN  /\ call' = [op |-> "modelGear", sameAsLast |-> sameAsLast,
                       crossCount |-> c, rootArcHits |-> h, cache |-> lastGear]
           /\ ret' = [tag |-> "ok", val |-> m.ret.val, raised |-> m.raised,
                      created |-> m.created, body |-> m.body]
           /\ shown' = IF m.printed THEN "printed" ELSE "none"
           /\ lastGear' = m.lastGear
  /\ UNCHANGED <<gear, lastInput, inputs, fission>>

\* the objects whose working pressure angle the fine grid can carry: beyond
\* 80 degrees the Newton passes of InverseInvolute leave every bounded range
OnFineGrid(g) == g.pressureAngle <= Deg(80)

\* gear.workingPressureAngle
Call_workingPressureAngle ==
  /\ Idle
  /\ gear.kind = "HelicalGearPlus"
  /\ OnFineGrid(gear)
  /\ call' = [op |-> "workingPressureAngle"]
  /\ ret' = workingPressureAngle(gear)
  /\ UNCHANGED <<gear, shown, lastGear, lastInput, inputs, fission>>

\* gear.centerDistanceIncrementFactor
Call_centerDistanceIncrementFactor ==
  /\ Idle
  /\ gear.kind = "HelicalGearPlus"
  /\ OnFineGrid(gear)
  /\ call' = [op |-> "centerDistanceIncrementFactor"]
  /\ ret' = centerDistanceIncrementFactor(gear)
  /\ UNCHANGED <<gear, shown, lastGear, lastInput, inputs, fission>>

\* the value is consumed; the object stays
Done ==
  /\ ~Idle
  /\ call' = NoCall
  /\ ret' = NoRet
  /\ shown' = "none"
  /\ UNCHANGED <<gear, lastGear, lastInput, inputs, fission>>

NextObj ==
  \/ Call_isInvalid
  \/ Call_isUndercutRequried
  \/ Call_InvoluteDraw
  \/ Call_modelGear
  \/ Done

SpecObj == InitObj /\ [][NextObj]_vars

---------------------------------------------------------------------------
(* The properties of the meshing pair (workingPressureAngle,               *)
(* centerDistanceIncrementFactor) of src/HelicalGearPlus.py applied to     *)
(* HelicalGear objects that differ from ObjGear in one attribute.          *)

InitMesh ==
  /\ \E x \in ProfileShifts, d \in Deviations : gear = Assign(ObjGear(x), d)
  /\ call = NoCall
  /\ ret = NoRet
  /\ shown = "none"
  /\ lastGear = None
  /\ lastInput = ""
  /\ inputs = NoInputs
  /\ Unwired

NextMesh ==
  \/ Call_workingPressureAngle
  \/ Call_centerDistanceIncrementFactor
  \/ Done

SpecMesh == InitMesh /\ [][NextMesh]_vars

---------------------------------------------------------------------------
(* Involute.InverseInvolute of src/HelicalGearPlus.py applied to the       *)
(* involute of angles drawn from a bounded set.                            *)

\* the angles tried, in tenths of a degree: 0 and every half degree from 5
\* to 75 degrees
InvAngles == {0} \cup {5 * k : k \in 10 .. 150}

InitInv ==
  /\ gear = NoGear
  /\ call \in {[op |-> "angle", x |-> a] : a \in InvAngles}
  /\ ret = NoRet
  /\ shown = "none"
  /\ lastGear = None
  /\ lastInput = ""
  /\ inputs = NoInputs
  /\ Unwired

\* Involute.InverseInvolute(Involute.Involute(x))
Call_InverseInvolute ==
  /\ call.op = "angle"
  /\ call' = [op |-> "InverseInvolute", x |-> call.x]
  /\ ret' = InverseInvolute(Involute(XRadians(call.x)))
  /\ UNCHANGED <<gear, shown, lastGear, lastInput, inputs, fission>>

\* the value is consumed
DoneInv ==
  /\ call.op = "InverseInvolute"
  /\ call' = [op |-> "angle", x |-> call.x]
  /\ ret' = NoRet
  /\ UNCHANGED <<gear, shown, lastGear, lastInput, inputs, fission>>

NextInv ==
  \/ Call_InverseInvolute
  \/ DoneInv

SpecInv == InitInv /\ [][NextInv]_vars

---------------------------------------------------------------------------
(* Properties.                                                             *)

FactoryOps ==
  {"create_in_normal_system", "create_in_radial_system", "create_sunderland",
   "createInNormalSystem", "createInRadialSystem"}

PlusFactoryOps == {"createInNormalSystem", "createInRadialSystem"}

\* C1: for every gear object isInvalid returns False if and only if every
\* condition of the validity set holds (width > 0, helix angle strictly
\* between -90 and 90 degrees, module, addendum and whole depth > 0, both
\* pressure angles in [0, 80 degrees], tooth count > 0, |backlashAngle|/4 <
\* toothArcAngle/8, internal outside diameter above the outside diameter when
\* internal, circular pitch, base, pitch and outside diameter > 0, root
\* diameter > 0.03), and a reason string in every other case.
C1_FalseIffAllHold ==
  call.op = "isInvalid" =>
    LET g  == gear
        pd == g.module * g.toothCount
        bd == FMul(pd, Cos(g.pressureAngle))
        ba == IF pd > 0 THEN (2 * g.backlash * SC * SC) \div pd ELSE 0
        ta == IF g.toothCount > 0 THEN (2 * PiMicro) \div g.toothCount ELSE 0
        allHold ==
          /\ g.width > 0
          /\ Deg(-90) < g.helixAngle /\ g.helixAngle < Deg(90)
          /\ g.module > 0 /\ g.addendum > 0 /\ g.wholeDepth > 0
          /\ 0 <= g.pressureAngle /\ g.pressureAngle <= Deg(80)
          /\ 0 <= g.normalPressureAngle /\ g.normalPressureAngle <= Deg(80)
          /\ g.toothCount > 0
          /\ 2 * Abs(ba) < ta
          /\ (g.internalOutsideDiameter # 0
                => g.internalOutsideDiameter > g.outsideDiameter)
          /\ g.circularPitch > 0 /\ bd > 0 /\ pd > 0
          /\ g.rootDiameter > RootFloor /\ g.outsideDiameter > 0
    IN  /\ ret.tag = "ok"
        /\ (ret.val = "False") <=> allHold

\* C2: isInvalid returns the label of the first failing check in the fixed
\* order width, helix low, helix high, module, addendum, whole depth,
\* pressure angle low/high, normal pressure angle low/high, tooth count,
\* backlash, internal outside diameter, circular pitch, base, pitch, root,
\* outside diameter: when a check fails, the earliest failing one's label.
C2_FirstFailingLabel ==
  call.op = "isInvalid" =>
    LET g  == gear
        pd == g.module * g.toothCount
        bd == FMul(pd, Cos(g.pressureAngle))
        ba == IF pd > 0 THEN (2 * g.backlash * SC * SC) \div pd ELSE 0
        ta == IF g.toothCount > 0 THEN (2 * PiMicro) \div g.toothCount ELSE 0
        checks ==
          << <<g.width <= 0, "Width too low">>,
             <<g.helixAngle < Deg(-90), "Helix angle too low">>,
             <<g.helixAngle > Deg(90), "Helix angle too high">>,
             <<g.module <= 0, "Module to low">>,
             <<g.addendum <= 0, "Addendum too low">>,
             <<g.wholeDepth <= 0, "Dedendum too low">>,
             <<g.pressureAngle < 0, "Pressure angle too low">>,
             <<g.pressureAngle > Deg(80), "Pressure angle too high">>,
             <<g.normalPressureAngle < 0, "Pressure angle too low">>,
             <<g.normalPressureAngle > Deg(80), "Pressure angle too high">>,
             <<g.toothCount <= 0, "Too few teeth">>,
             <<2 * Abs(ba) >= ta, "Backlash too high">>,
             <<g.internalOutsideDiameter # 0
                 /\ g.internalOutsideDiameter <= g.outsideDiameter,
               "Outside diameter too low">>,
             <<g.circularPitch <= 0, "Invalid: circularPitch">>,
             <<bd <= 0, "Invalid Gear">>,
             <<pd <= 0, "Invalid Gear">>,
             <<g.rootDiameter <= RootFloor, "Invalid Gear">>,
             <<g.outsideDiameter <= 0, "Invalid Gear">> >>
        failing == {i \in DOMAIN checks : checks[i][1]}
        first   == CHOOSE i \in failing : \A j \in failing : i <= j
    IN  failing # {} => (ret.tag = "ok" /\ ret.val = checks[first][2])

\* C3: evaluating the validity predicate of a gear (isInvalid, is_valid)
\* always yields a result and never raises.
C3_ValidityNeverRaises ==
  call.op \in {"isInvalid", "is_valid"} => ret.tag = "ok"

\* C4: every factory is total: it never throws, and the gear it returns has
\* a tooth count >= 1 and a module > 0 (a tooth count <= 0 is replaced by 1,
\* a module <= 0 by the smallest positive module).
C4_FactoriesTotal ==
  call.op \in FactoryOps =>
    /\ ret.tag = "ok"
    /\ IF call.op \in PlusFactoryOps
       THEN gear.toothCount >= 1 /\ gear.module > 0
       ELSE gear.tooth_count >= 1 /\ gear.module > 0

\* C5: createInNormalSystem and createInRadialSystem do not replace a
\* pressure angle or helix angle outside its domain: the returned gear
\* keeps the caller's angles and isInvalid on it reports a pressure-angle
\* or helix-angle reason.
C5_AnglesKeptAndReported ==
  (/\ call.op \in PlusFactoryOps
   /\ \/ ~(0 <= call.pressure_angle /\ call.pressure_angle < Deg(90))
      \/ ~(Deg(-90) < call.helix_angle /\ call.helix_angle < Deg(90)))
  => /\ ret.tag = "ok"
     /\ gear.helixAngle = call.helix_angle
     /\ IF call.op = "createInNormalSystem"
        THEN gear.normalPressureAngle = call.pressure_angle
        ELSE gear.pressureAngle = call.pressure_angle
     /\ isInvalid(gear) \in {Ok("Helix angle too low"), Ok("Helix angle too high"),
                             Ok("Pressure angle too low"), Ok("Pressure angle too high")}

\* C6: every factory call yields a gear with pitchDiameter = module x
\* toothCount, outsideDiameter = pitchDiameter + 2 x addendum, rootDiameter =
\* outsideDiameter - 2 x wholeDepth and circularPitch = module x pi, hence
\* rootDiameter < outsideDiameter whenever wholeDepth > 0.
C6_DiameterRelations ==
  call.op \in FactoryOps =>
    /\ IsGear(gear)
    /\ IF call.op \in PlusFactoryOps
       THEN /\ pitchDiameter(gear) = Ok(gear.module * gear.toothCount)
            /\ gear.outsideDiameter = gear.module * gear.toothCount + 2 * gear.addendum
            /\ gear.rootDiameter = gear.outsideDiameter - 2 * gear.wholeDepth
            /\ gear.circularPitch = FMul(gear.module, Pi)
            /\ (gear.wholeDepth > 0 => gear.rootDiameter < gear.outsideDiameter)
       ELSE /\ gear.pitch_diameter = gear.module * gear.tooth_count
            /\ gear.outside_diameter = gear.pitch_diameter + 2 * gear.addendum
            /\ gear.root_diameter = gear.outside_diameter - 2 * gear.whole_depth
            /\ gear.circular_pitch = FMul(gear.module, Pi)
            /\ (gear.whole_depth > 0 => gear.root_diameter < gear.outside_diameter)

\* C7 as stated: create_sunderland returns a gear with helix angle 22.5
\* degrees and radial pressure angle 20 degrees whose addendum is 0.8796 x
\* normalModule and whose whole depth is 1.8849 x normalModule, normalModule
\* being radialModule x cos(22.5 degrees).
C7_DepthsFromNormalModule ==
  call.op = "create_sunderland" =>
    /\ gear.helix_angle = 225
    /\ gear.pressure_angle = Deg(20)
    /\ gear.normal_module = FMul(gear.module, Cos(225))
    /\ gear.addendum = (8796 * gear.normal_module) \div 10000
    /\ gear.whole_depth = (18849 * gear.normal_module) \div 10000

\* C7 amended: create_sunderland returns a gear with helix angle 22.5
\* degrees and radial pressure angle 20 degrees whose addendum is 0.8796 x
\* the radial module and whose whole depth is 1.8849 x the radial module
\* (the radial module being the one passed, or the smallest positive module
\* when the one passed is <= 0); normalModule = radialModule x cos(22.5).
C7_DepthsFromRadialModule ==
  call.op = "create_sunderland" =>
    LET rm == IF call.module > 0 THEN call.module ELSE Epsilon
    IN  /\ gear.helix_angle = 225
        /\ gear.pressure_angle = Deg(20)
        /\ gear.module = rm
        /\ gear.normal_module = FMul(rm, Cos(225))
        /\ gear.addendum = (8796 * rm) \div 10000
        /\ gear.whole_depth = (18849 * rm) \div 10000

\* a Sunderland gear of radial module 0.03: normal module 0.0277, addendum
\* 0.0263 (0.8796 x 0.03) where 0.8796 x 0.0277 would be 0.0243
C7_Witness ==
  /\ call.op = "create_sunderland"
  /\ call.module = 300
  /\ call.tooth_count = 16
  /\ gear.normal_module = 277
  /\ gear.addendum = 263
  /\ gear.whole_depth = 565

\* C8: isUndercutRequried is true exactly when toothCount / cos^3(helixAngle)
\* is below 2 x (1 - profileShift) / sin^2(normalPressureAngle); it is false
\* at equality; at normal pressure angle 0 every gear is flagged; at normal
\* pressure angle 20 degrees, helix angle 0 and no shift a 16-tooth gear is
\* flagged and an 18-tooth gear is not.
C8_UndercutBelowCritical ==
  (call.op = "isUndercutRequried" /\ Cos(gear.helixAngle) # 0) =>
    LET c  == Cos(gear.helixAngle)
        s  == Sin(gear.normalPressureAngle)
        x  == gear.modifier.profileShift
        vt == FDiv(FDiv(FDiv(gear.toothCount * SC, c), c), c)
    IN  /\ ret.tag = "ok"
        /\ s = 0 => ret.val = "True"
        /\ s # 0 => (ret.val = "True" <=> vt < (2 * (SC - x) * SC * SC) \div (s * s))
        /\ (s # 0 /\ vt = (2 * (SC - x) * SC * SC) \div (s * s)) => ret.val = "False"
        /\ (gear.normalPressureAngle = Deg(20) /\ gear.helixAngle = 0 /\ x = 0)
             => /\ gear.toothCount = 16 => ret.val = "True"
                /\ gear.toothCount = 18 => ret.val = "False"

\* the boundary: a 2-tooth spur gear at normal pressure angle 90 degrees
\* without shift has virtual and critical tooth count 2, and is not flagged
C8_Witness ==
  /\ call.op = "isUndercutRequried"
  /\ gear.toothCount = 2
  /\ gear.helixAngle = 0
  /\ gear.normalPressureAngle = Deg(90)
  /\ gear.modifier.profileShift = 0
  /\ gear.virtualTeeth = 2 * SC
  /\ critcalVirtualToothCount(gear) = Ok(2 * SC)
  /\ ret = Ok("False")

\* C9: for every sample count n >= 2 Involute.draw samples exactly n points
\* on each flank, the i-th at radius start + i x (ro - start) / (n - 1) with
\* start = max(rb, rr); a sample count below 2 is not accepted.
C9_SamplesPerFlank ==
  (call.op = "Involute.draw" /\ gear.kind = "HelicalGearPlus") =>
    LET n  == call.involutePointCount
        pd == gear.module * gear.toothCount
        rb == FMul(pd, Cos(gear.pressureAngle)) \div 2
        rr == gear.rootDiameter \div 2
        ro == gear.outsideDiameter \div 2
        start == IF rb >= rr THEN rb ELSE rr
    IN  IF n < 2 THEN ret.tag = "raise"
        ELSE /\ ret.tag = "ok"
             /\ Len(ret.flank1) = n
             /\ Len(ret.flank2) = n
             /\ \A i \in 0 .. n - 1 :
                  /\ ret.flank1[i + 1].r = start + (i * (ro - start)) \div (n - 1)
                  /\ ret.flank2[i + 1].r = start + (i * (ro - start)) \div (n - 1)

\* C10: for each tooth exactly one tip treatment: when the flanks cross once
\* the flanks end at the crossing point and neither chord nor arc is drawn;
\* when they do not cross the flank ends are joined by a chord if the tooth
\* count is >= 100 and otherwise by an arc about the origin whose radius is
\* the distance to the last involute point and whose sweep is the angle
\* between the two flank tips.
C10_OneTipTreatment ==
  (call.op = "Involute.draw" /\ gear.kind = "HelicalGear" /\ ret.tag = "ok") =>
    LET n == call.involutePointCount
    IN  IF call.crossCount = 1
        THEN ret.flanksEndAtCrossing /\ ret.tip.kind = "none"
        ELSE IF gear.tooth_count >= 100 THEN ret.tip.kind = "chord"
        ELSE /\ ret.tip.kind = "arc"
             /\ ret.tip.radius = ret.flank1[n].r
             /\ ret.tip.sweep = (ret.flank2[n].a - ret.flank1[n].a) % 3600

\* C11: when the two flank curves of a tooth intersect in more than one
\* point, Involute.draw fails with an assertion error, and the failure
\* reaches the caller of the gear generation (modelGear) as an error: the
\* generation does not return normally.
C11_CrossingsSurfaceAsError ==
  /\ (call.op = "Involute.draw" /\ gear.kind = "HelicalGearPlus"
        /\ call.involutePointCount >= 2 /\ call.crossCount > 1)
       => (ret.tag = "raise" /\ ret.err = "AssertionError")
  /\ (call.op = "modelGear" /\ gear.toothCount > 0 /\ call.crossCount > 1
        /\ ~(call.sameAsLast /\ call.cache # None))
       => (ret.tag = "raise" /\ ret.err = "AssertionError")

\* C12: the root arc of a tooth is drawn about the origin at radius
\* rootDiameter/2 - 1e-5 (a tenth of a grid step: the radius is within one
\* step of rootDiameter/2), from the start angle of flank 1 to the start
\* angle of flank 2; when the arc intersects flank 1 the flanks and the arc
\* are trimmed, and otherwise, and only otherwise, each flank start is joined
\* by a connecting segment.
C12_RootArc ==
  (call.op = "Involute.draw" /\ gear.kind = "HelicalGear" /\ ret.tag = "ok") =>
    /\ Abs(10 * ret.rootArc.radius - (5 * gear.root_diameter - 1)) <= 10
    /\ ret.rootArc.start = ret.flank1[1].a
    /\ ret.rootArc.sweep = (ret.flank2[1].a - ret.flank1[1].a) % 3600
    /\ call.rootArcHits => (ret.rootTrimmed /\ ret.connectors = 0)
    /\ ~call.rootArcHits => (~ret.rootTrimmed /\ ret.connectors = 2)

\* C13: for every gear that passes the validity predicate (pressure angle in
\* [0, 80 degrees], any tooth counts) whose own and mating profile shift are
\* both 0, workingPressureAngle is defined and equals pressureAngle (to 1e-6
\* rad) and centerDistanceIncrementFactor is 0 (to 1e-6).
C13_UnshiftedMesh ==
  LET g  == gear
      pd == g.module * g.toothCount
      bd == FMul(pd, Cos(g.pressureAngle))
      ba == IF pd > 0 THEN (2 * g.backlash * SC * SC) \div pd ELSE 0
      ta == IF g.toothCount > 0 THEN (2 * PiMicro) \div g.toothCount ELSE 0
      valid ==
        /\ g.width > 0
        /\ Deg(-90) < g.helixAngle /\ g.helixAngle < Deg(90)
        /\ g.module > 0 /\ g.addendum > 0 /\ g.wholeDepth > 0
        /\ 0 <= g.pressureAngle /\ g.pressureAngle <= Deg(80)
        /\ 0 <= g.normalPressureAngle /\ g.normalPressureAngle <= Deg(80)
        /\ g.toothCount > 0
        /\ 2 * Abs(ba) < ta
        /\ (g.internalOutsideDiameter # 0
              => g.internalOutsideDiameter > g.outsideDiameter)
        /\ g.circularPitch > 0 /\ bd > 0 /\ pd > 0
        /\ g.rootDiameter > RootFloor /\ g.outsideDiameter > 0
      unshifted ==
        /\ g.modifier.cls = "instance"
        /\ g.modifier.profileShift = 0
        /\ g.modifier.otherProfileShift = 0
      tol == <<0, 0, 100, 0>>
  IN  /\ (call.op = "workingPressureAngle" /\ valid /\ unshifted) =>
           /\ ret.tag = "ok"
           /\ XLess(XAbs(XSub(ret.val, XRadians(g.pressureAngle))), tol)
      /\ (call.op = "centerDistanceIncrementFactor" /\ valid /\ unshifted) =>
           /\ ret.tag = "ok"
           /\ XLess(XAbs(ret.val), tol)

\* C16: for every angle x in [5, 60] degrees, InverseInvolute(Involute(x))
\* returns (after the estimate and its three Newton passes) a value within
\* 1e-6 rad of x.
C16_InverseWithinTolerance ==
  (call.op = "InverseInvolute" /\ Deg(5) <= call.x /\ call.x <= Deg(60)) =>
    /\ ret.tag = "ok"
    /\ XLess(XAbs(XSub(ret.val, XRadians(call.x))), <<0, 0, 100, 0>>)

\* the inverse has been taken at 5 and at 60 degrees, the ends of the range
C16_Witness ==
  /\ call.op = "InverseInvolute"
  /\ call.x \in {Deg(5), Deg(60)}
  /\ ret.tag = "ok"

\* C14: when center-distance solving is active in generateGear (Center-Center
\* checked, center distance > 0, mating tooth count > 0), the two profile
\* shifts handed to the factory sum to sumShift (to the resolution of the
\* fine grid): a non-zero shift1 is kept and shift2 is sumShift - shift1;
\* otherwise a non-zero shift2 is kept and shift1 is sumShift - shift2;
\* otherwise both are sumShift / 2.
C14_ShiftsSumToSumShift ==
  (call.op = "generateGear" /\ solving(inputs) /\ call.factory # "none") =>
    LET s1 == call.handed.profileShift
        s2 == call.handed.otherProfileShift
        ss == call.sumshift.val
    IN  /\ XLess(XAbs(XSub(XAdd(s1, s2), ss)), <<0, 0, 0, 2>>)
        /\ inputs.VIShift # 0 => (s1 = XShift(inputs.VIShift) /\ s2 = XSub(ss, s1))
        /\ (inputs.VIShift = 0 /\ inputs.VIShift2 # 0)
             => (s2 = XShift(inputs.VIShift2) /\ s1 = XSub(ss, s2))
        /\ (inputs.VIShift = 0 /\ inputs.VIShift2 = 0)
             => (s1 = XDivInt(ss, 2) /\ s2 = s1)

\* the solving ran with only shift2 fixed and a non-zero sum, and the
\* factory was called
C14_Witness ==
  /\ call.op = "generateGear"
  /\ solving(inputs)
  /\ call.factory = "HelicalGear.createInNormalSystem"
  /\ inputs.VIShift = 0
  /\ inputs.VIShift2 = 300
  /\ inputs.VICtrCtr = 62000
  /\ call.handed.otherProfileShift = XShift(300)
  /\ call.sumshift.val[1] = 0
  /\ call.sumshift.val[2] > 7000

\* C15: for any tooth count, normal module mn > 0, normal pressure angle an
\* and helix angle h in (-89, 89) degrees, createInNormalSystem returns a
\* gear, and createInRadialSystem applied to that gear's module and
\* pressureAngle with the same h returns a gear with the same module and
\* pressureAngle and with normalModule = mn and normalPressureAngle = an (to
\* one step of the grid).
C15_RoundTrip ==
  (call.op = "createInNormalSystem" /\ call.module > 0
     /\ Deg(-89) < call.helix_angle /\ call.helix_angle < Deg(89)) =>
    /\ ret.tag = "ok"
    /\ LET r == createInRadialSystem(call.tooth_count, ret.val.module, ret.val.pressureAngle,
                                     call.helix_angle, call.backlash, SC, 1250, SC, FALSE, 0,
                                     call.gearmodifier, call.gearmount)
       IN  /\ ~Failed(r)
           /\ r.module = ret.val.module
           /\ r.pressureAngle = ret.val.pressureAngle
           /\ Abs(r.normalModule - call.module) <= 1
           /\ Abs(r.normalPressureAngle - call.pressure_angle) <= 1

\* the points of flank q are those of flank p turned by d tenths of a degree
Turned(p, q, d) ==
  /\ Len(q) = Len(p)
  /\ \A k \in 1 .. Len(p) : q[k].r = p[k].r /\ (q[k].a - p[k].a - d) % 3600 = 0

C18_GearsImmutable ==
  call.op = "inputChanged" =>
    /\ gear # NoGear
    /\ ret.written = {}
    /\ gear.kind = "HelicalGearPlus" =>
         (gear.modifier.cls = "instance" /\ gear.mount.cls = "instance")

C20_CacheUse ==
  /\ call.op = "executePreview" => (call.reuseGear <=> lastInput \in PositionalInputs)
  /\ call.op = "execute" => ~call.reuseGear
  /\ (call.op \in {"execute", "executePreview"} /\ (call.op = "execute" \/ inputs.BVPreview)) =>
       /\ ret.body = "cached" <=> (call.reuseGear /\ call.cache # None)
       /\ ret.body # "cached" => (ret.body = "new" /\ lastGear = BodyOf(gear))

\* C21: the body the preview handler places was generated from the current
\* values of the inputs: when a preview has added the cached body, that body
\* is the one of the gear generateGear returned for the inputs of this
\* preview.
C21_PreviewBodyCurrent ==
  (call.op = "executePreview" /\ ret.body = "cached") => call.cache = BodyOf(gear)

\* C22: in generate_gear a preview creates no geometry when the gear is
\* invalid, when full preview is off, when the teeth wrap around the gear
\* more than 25 times over the thickness (whatever the handedness: the
\* number of wraps is that of the right-handed gear of the same helix
\* angle), or when there are more than 150 teeth; on execute every valid
\* gear is generated.
C22_PreviewLimits ==
  call.op = "generate_gear" =>
    /\ (call.is_preview /\ ret.created) =>
         /\ is_valid(gear)
         /\ call.generate_all_teeth
         /\ loops([gear EXCEPT !.handedness = "right"], call.gear_thickness) <= 25 * SC
         /\ gear.tooth_count <= 150
    /\ (~call.is_preview /\ is_valid(gear)) => ret.created

\* C23: when NoUnderCut has been checked for an external gear whose tooth
\* count is below Zcrit = floor(critcalVirtualToothCount at profile shift 0),
\* the handler has set the profile shift to 1 - toothCount / Zcrit, and the
\* gear it then generated from the dialog needs no undercut.
C23_NoUnderCutShift ==
  LET c0 == critcalVirtualToothCount([normalPressureAngle |-> inputs.VIPressureAngle, modifier |-> GearModifier(0, 0, 0, 0)])
  IN  (/\ call.op = "inputChanged" /\ call.id = "BVNoUnderCut" /\ inputs.BVNoUnderCut
       /\ inputs.DDType = "External Gear" /\ inputs.DDStandard = "Normal"
       /\ c0.val # Inf /\ inputs.ISTeeth < c0.val \div SC)
      => /\ inputs.VIShift = SC - (inputs.ISTeeth * SC) \div (c0.val \div SC)
         /\ gear.kind = "HelicalGearPlus"
         /\ isUndercutRequried(gear) = Ok("False")

\* C24: a dialog created after an execute starts with exactly the values in
\* effect at that execute, for every input that has a key in pers, the
\* Bore, Keyway, Center-Center and Preview checkboxes included.
C24_DialogRestored ==
  call.op = "commandCreated" => \A k \in DOMAIN pers : inputs[k] = call.executed[k]

\* C25: for a gear that reaches the backlash check of the validity predicate,
\* the check lets the gear pass exactly when |backlash| < circularPitch / 2
\* (pi x module / 2), whatever the tooth count.
C25_BacklashRange ==
  (/\ call.op = "isInvalid"
   /\ gear.width > 0 /\ Deg(-90) <= gear.helixAngle /\ gear.helixAngle <= Deg(90)
   /\ gear.module > 0 /\ gear.addendum > 0 /\ gear.wholeDepth > 0
   /\ 0 <= gear.pressureAngle /\ gear.pressureAngle <= Deg(80)
   /\ 0 <= gear.normalPressureAngle /\ gear.normalPressureAngle <= Deg(80)
   /\ gear.toothCount > 0)
  => /\ (~IsRaise(backlashAngle(gear)) /\ 2 * Abs(backlashAngle(gear).val) < toothArcAngle(gear))
          <=> 2 * Abs(gear.backlash) < FMul(gear.module, Pi)
     /\ ret = Ok("Backlash too high") <=> 2 * Abs(gear.backlash) >= FMul(gear.module, Pi)

\* C26: in every dialog state reached through input-changed events on the
\* gear type and on the Bore and Keyway boxes, Keyway is checked only if
\* Bore is checked, and the key's width and height inputs are visible only
\* when Bore and Keyway are both checked.
C26_KeywayNeedsBore ==
  /\ inputs.BVKey => inputs.BVBore
  /\ (inputs.isVisible.VIKeyWidth \/ inputs.isVisible.VIKeyHeight) => (inputs.BVBore /\ inputs.BVKey)

C28_SolveCompletes ==
  (/\ call.op = "generateGear" /\ inputs.DDType = "External Gear" /\ solving(inputs)
   /\ inputs.VIModule > 0 /\ 0 <= inputs.VIPressureAngle /\ inputs.VIPressureAngle <= Deg(80))
  => (call.sumshift.tag = "ok" /\ ~Failed(ret))

C30_ValidOnlyIfAllValid ==
  (/\ call.op = "notify" /\ call.event = "validate_inputs"
   /\ \E h \in call.receivers : h.callback = "_InputFactory__on_validate")
  => /\ ret.areInputsValid =>
          \A i \in DOMAIN validate_callbacks : validate_callbacks[i].callback = "True"
     /\ (\E i \in DOMAIN validate_callbacks : validate_callbacks[i].callback = "raise")
          => ~ret.areInputsValid
     /\ \A i \in DOMAIN validate_callbacks :
          validate_callbacks[i].callback # "True" => ret.called <= i
     /\ \A i \in 1 .. ret.called - 1 : validate_callbacks[i].callback = "True"
     /\ ~call.areInputsValid => ~ret.areInputsValid

\* a notification that found areInputsValid False, with a raising callback
\* after a passing one and a third never reached
C30_Witness ==
  /\ call.op = "notify" /\ call.event = "validate_inputs"
  /\ \E h \in call.receivers : h.callback = "_InputFactory__on_validate"
  /\ ~call.areInputsValid
  /\ Len(validate_callbacks) = 2
  /\ validate_callbacks[1].callback = "True"
  /\ validate_callbacks[2].callback = "raise"
  /\ ret.called = 2
  /\ ~ret.areInputsValid

====
